---- MODULE Spec2Model ----
(***************************************************************************)
(* Model of the charge scheduling engine of foxesscloud/openapi.py:        *)
(* the time utilities, the Agile price window search (get_agile_period)    *)
(* and the charge solver (charge_needed) with its two simulation passes.   *)
(*                                                                         *)
(* Python floats are modelled as exact rationals <<n, d>> in lowest terms  *)
(* with d > 0.  Times are decimal hours, energies are kWh, as in the code. *)
(***************************************************************************)
EXTENDS Integers, Sequences, FiniteSets, TLC

\* ------------------------------------------------------------------------
\* Decimal arithmetic
\* ------------------------------------------------------------------------

\* Python's None; no rational has denominator 0
None == <<0, 0>>

Abs(x) == IF x < 0 THEN -x ELSE x

RECURSIVE GCD(_, _)
GCD(a, b) == IF b = 0 THEN a ELSE GCD(b, a % b)

\* the rational n / d in lowest terms (d # 0)
Q(n, d) ==
    LET s == IF d < 0 THEN -1 ELSE 1
        g == GCD(Abs(n), Abs(d))
    IN  <<s * (n \div g), s * (d \div g)>>

I(n) == <<n, 1>>

\* sums, products and comparisons cancel common factors first, so that the
\* integers stay as small as the values allow
Add(a, b) ==
    LET g == GCD(a[2], b[2])
    IN  Q(a[1] * (b[2] \div g) + b[1] * (a[2] \div g), (a[2] \div g) * b[2])

Neg(a) == <<-a[1], a[2]>>

Sub(a, b) == Add(a, Neg(b))

Mul(a, b) ==
    LET g1 == GCD(Abs(a[1]), b[2])
        g2 == GCD(Abs(b[1]), a[2])
    IN  Q((a[1] \div g1) * (b[1] \div g2), (a[2] \div g2) * (b[2] \div g1))

\* a / b, b # 0
Div(a, b) == Mul(a, Q(b[2], b[1]))

Lt(a, b) ==
    LET g == GCD(a[2], b[2])
    IN  a[1] * (b[2] \div g) < b[1] * (a[2] \div g)

Le(a, b) == ~Lt(b, a)

Floor(a) == a[1] \div a[2]

\* Python int(x): truncation towards zero
int(a) == IF a[1] >= 0 THEN a[1] \div a[2] ELSE -((-a[1]) \div a[2])

\* Python round(x, 0): nearest integer, a tie goes to the even neighbour
Round0(a) ==
    LET f == Floor(a)
        r == Sub(a, I(f))
    IN  IF Lt(r, Q(1, 2)) THEN f
        ELSE IF Lt(Q(1, 2), r) THEN f + 1
        ELSE IF f % 2 = 0 THEN f ELSE f + 1

\* Python round(x, 2)
Round2(a) == Q(Round0(Mul(a, I(100))), 100)

\* a Python list built by a list comprehension: the values, worked out once
List(s) == SubSeq(s, 1, Len(s))

\* sum of a sequence of decimals
RECURSIVE SumSeq(_)
SumSeq(s) ==
    IF Len(s) = 0 THEN I(0)
    ELSE IF Len(s) = 1 THEN s[1]
    ELSE LET m == Len(s) \div 2
         IN  Add(SumSeq(SubSeq(s, 1, m)), SumSeq(SubSeq(s, m + 1, Len(s))))

\* ------------------------------------------------------------------------
\* Time and charge period functions
\* ------------------------------------------------------------------------

\* the loops  while h < 0: h += 24  and  while h >= 24: h -= 24
Wrap24(h) == Sub(h, I(24 * (Floor(h) \div 24)))

\* roll over decimal times after maths and round to 1 minute
round_time(h) ==
    IF h = None THEN None
    ELSE LET w  == Wrap24(h)
             ih == int(w)
         IN  Add(I(ih), Q(int(Add(Mul(I(60), Sub(w, I(ih))), Q(1, 2))), 60))

\* a time text "HH:MM" is the pair <<HH, MM>>
time_hours(t) == Add(I(t[1]), Q(t[2], 60))

\* decimal hours to the text HH:MM
hours_time(h) ==
    LET w == Wrap24(h)
    IN  <<int(w), int(Mul(w, I(60))) % 60>>

\* a period that is None (a key the tariff does not have)
NoPeriod == [missing |-> TRUE]

\* hour_in, if the end of the period counted as inside
hour_in_to_end(h, period) ==
    IF period = NoPeriod THEN FALSE
    ELSE LET s == period.start
             e == period.end
         IN  IF s = None \/ e = None \/ s = e THEN FALSE
             ELSE IF Lt(e, s) THEN Le(s, Wrap24(h)) \/ Le(Wrap24(h), e)
             ELSE Le(s, Wrap24(h)) /\ Le(Wrap24(h), e)

\* True if a decimal hour is within a time period
hour_in(h, period) ==
    IF period = NoPeriod THEN FALSE
    ELSE LET s == period.start
             e == period.end
         IN  IF s = None \/ e = None \/ s = e THEN FALSE
             ELSE IF Lt(e, s) THEN Le(s, Wrap24(h)) \/ Lt(Wrap24(h), e)
             ELSE Le(s, Wrap24(h)) /\ Lt(Wrap24(h), e)

\* ------------------------------------------------------------------------
\* Program state
\* ------------------------------------------------------------------------
VARIABLES
    tariff_config,   \* module-wide settings of the Agile price search
    prices,          \* the half-hourly prices inc VAT the price feed returned, oldest first
    period,          \* what get_agile_period returned
    min_i,           \* get_agile_period: index of the lowest weighted average
    agile_pc,        \* "call" before get_agile_period runs, "done" after
    agile_off_peak1, \* module-wide: the off_peak1 period of agile_octopus
    util,            \* a call of set_tariff or of a helper function, and what it returned
    battery_capacity, \* module-wide: the battery capacity once it is known
    tariff,          \* module-wide: the tariff in use
    charge_config,   \* module-wide: the charge_needed settings
    args,            \* the arguments of the charge_needed call
    data,            \* what the clock, the inverter, the history and the forecasts supply
    cn,              \* the local variables of charge_needed set so far
    calls,           \* the settings calls issued: set_charge, set_work_mode
    pc               \* where charge_needed is

agile_vars == <<tariff_config, prices, period, min_i, agile_pc, agile_off_peak1>>

charge_vars == <<battery_capacity, tariff, charge_config, args, data, cn, calls, pc>>

vars == <<tariff_config, prices, period, min_i, agile_pc, agile_off_peak1, util,
          battery_capacity, tariff, charge_config, args, data, cn, calls, pc>>

\* ------------------------------------------------------------------------
\* TARIFFS - charge periods and time of use
\* ------------------------------------------------------------------------

work_modes == <<"SelfUse", "Feedin", "Backup", "ForceCharge", "ForceDischarge">>

\* the work mode keys a tariff does not have
NoModes == [w \in {work_modes[k] : k \in 1..Len(work_modes)} |-> NoPeriod]

octopus_flux ==
    [name |-> "Octopus Flux",
     off_peak1 |-> [start |-> I(2), end |-> I(5), force |-> 1],
     off_peak2 |-> [start |-> I(0), end |-> I(0), force |-> 0],
     forecast_times |-> {21, 22, 23},
     default_mode |-> "SelfUse",
     modes |-> [NoModes EXCEPT !["Feedin"] = [start |-> I(16), end |-> I(7), min_soc |-> 75]]]

intelligent_octopus ==
    [name |-> "Intelligent Octopus",
     off_peak1 |-> [start |-> Q(47, 2), end |-> Q(11, 2), force |-> 1],
     off_peak2 |-> [start |-> I(0), end |-> I(0), force |-> 0],
     forecast_times |-> {22, 23},
     default_mode |-> "None",
     modes |-> NoModes]

octopus_cosy ==
    [name |-> "Octopus Cosy",
     off_peak1 |-> [start |-> I(4), end |-> I(7), force |-> 1],
     off_peak2 |-> [start |-> I(13), end |-> I(16), force |-> 0],
     forecast_times |-> {2, 3, 12},
     default_mode |-> "None",
     modes |-> NoModes]

octopus_go ==
    [name |-> "Octopus Go",
     off_peak1 |-> [start |-> Q(1, 2), end |-> Q(9, 2), force |-> 1],
     off_peak2 |-> [start |-> I(0), end |-> I(0), force |-> 0],
     forecast_times |-> {22, 23},
     default_mode |-> "None",
     modes |-> NoModes]

agile_octopus ==
    [name |-> "Agile Octopus",
     off_peak1 |-> [start |-> Q(5, 2), end |-> I(5), force |-> 1],
     off_peak2 |-> [start |-> I(0), end |-> I(0), force |-> 0],
     forecast_times |-> {22, 23},
     default_mode |-> "None",
     modes |-> NoModes]

bg_driver ==
    [name |-> "British Gas Electric Driver",
     off_peak1 |-> [start |-> I(0), end |-> I(5), force |-> 1],
     off_peak2 |-> [start |-> I(0), end |-> I(0), force |-> 0],
     forecast_times |-> {22, 23},
     default_mode |-> "None",
     modes |-> NoModes]

custom_periods ==
    [name |-> "Custom",
     off_peak1 |-> [start |-> I(2), end |-> I(5), force |-> 1],
     off_peak2 |-> [start |-> I(15), end |-> I(16), force |-> 0],
     forecast_times |-> {22, 23},
     default_mode |-> "None",
     modes |-> NoModes]

tariff_list ==
    <<octopus_flux, intelligent_octopus, octopus_cosy, octopus_go, agile_octopus,
      bg_driver, custom_periods>>

\* ------------------------------------------------------------------------
\* Octopus Energy Agile Price
\* ------------------------------------------------------------------------

\* preset weightings for average pricing over charging duration
front_loaded == <<I(1), Q(9, 10), Q(8, 10), Q(7, 10), Q(6, 10), Q(5, 10)>>

first_hour == <<I(1), I(1)>>

\* tariff_config['weighting'] = None: no list of weights
NoWeighting == <<>>

\* hours for the charge period: defaulted, limited to 1..6 and rounded up to 30 minutes
agile_duration(cfg) ==
    LET d == cfg.duration
        c == IF d = None THEN I(3)
             ELSE IF Lt(I(6), d) THEN I(6)
             ELSE IF Lt(d, I(1)) THEN I(1) ELSE d
    IN  Div(I(Round0(Add(Mul(c, I(2)), Q(49, 100)))), I(2))

\* a variant that rounds the duration up to whole hours
agile_span_whole_hours(cfg) == 2 * (-Floor(Neg(agile_duration(cfg))))

\* number of 30 minute pricing periods
agile_span(cfg) == int(Mul(agile_duration(cfg), I(2)))

\* the feed starts at 23:00 local time and has one entry per 30 minutes
agile_times(n) == List([i \in 1..n |-> hours_time(Add(time_hours(<<23, 0>>), Q(i - 1, 2)))])

agile_start_at(cfg) == IF cfg.start_at = None THEN I(23) ELSE cfg.start_at

agile_end_by(cfg) == IF cfg.end_by = None THEN I(8) ELSE cfg.end_by

\* index (from 0) of the first candidate start slot
agile_start_i(cfg) == int(Mul(round_time(Sub(agile_start_at(cfg), I(23))), I(2)))

\* variant: the duration is not taken off the latest end
agile_end_i_late(cfg) ==
    LET e == int(Mul(round_time(Sub(agile_end_by(cfg), I(23))), I(2)))
    IN  IF e < agile_start_i(cfg) THEN agile_start_i(cfg) ELSE e

\* index (from 0) of the last candidate start slot
agile_end_i(cfg) ==
    LET e == int(Mul(round_time(Sub(Sub(agile_end_by(cfg), I(23)), agile_duration(cfg))), I(2)))
    IN  IF e < agile_start_i(cfg) THEN agile_start_i(cfg) ELSE e

\* weights for the weighted average, padded / cut to span
agile_weights(cfg) ==
    LET span == agile_span(cfg)
    IN  IF cfg.weighting = NoWeighting THEN [k \in 1..span |-> I(1)]
        ELSE [k \in 1..span |-> IF k <= Len(cfg.weighting) THEN cfg.weighting[k] ELSE I(0)]

\* the weighted average price of the prices p_span, without rounding
agile_mean(p_span, weights) ==
    Div(SumSeq([k \in 1..Len(weights) |-> Mul(p_span[k], weights[k])]), SumSeq(weights))

\* prices[i: i + span], i counted from 0
agile_slice(ps, i, span) == [k \in 1..span |-> ps[i + k]]

\* wavg as the loop computes it
agile_wavg(p_span, weights) == Round2(agile_mean(p_span, weights))

\* variant: a later slot with the same average replaces the earlier one
agile_lower_or_equal(wavg, min_v) == min_v = None \/ Le(wavg, min_v)

\* the test that makes slot i the lowest so far
agile_lower(wavg, min_v) == min_v = None \/ Lt(wavg, min_v)

\* the loop over the candidate slots from slot i on, <<min_i, min_v>> so far
RECURSIVE agile_scan(_, _, _, _, _)
agile_scan(ps, weights, i, end_i, best) ==
    IF i > end_i THEN best
    ELSE LET wavg == agile_wavg(agile_slice(ps, i, Len(weights)), weights)
         IN  agile_scan(ps, weights, i + 1, end_i,
                        IF agile_lower(wavg, best[2]) THEN <<i, wavg>> ELSE best)

\* what get_agile_period returns: None, a period, or nothing because the
\* reading of times[min_i + span] raised IndexError
NonePeriod == [is |-> "None"]

IndexError == [is |-> "IndexError"]

\* get prices and work out lowest weighted average price time period
get_agile_period_result(cfg, ps) ==
    LET span  == agile_span(cfg)
        end_i == agile_end_i(cfg)
        times == agile_times(Len(ps))
        best  == agile_scan(ps, agile_weights(cfg), agile_start_i(cfg), end_i, <<-1, None>>)
    IN  IF Len(ps) < end_i + span THEN [i |-> -1, period |-> NonePeriod]
        ELSE IF best[1] + span >= Len(ps) THEN [i |-> best[1], period |-> IndexError]
        ELSE [i |-> best[1],
              period |-> [is |-> "period", span |-> span, start |-> times[best[1] + 1],
                          end |-> times[best[1] + span + 1], price |-> best[2]]]

get_agile_period ==
    /\ agile_pc = "call"
    /\ LET r == get_agile_period_result(tariff_config, prices)
       IN  period' = r.period /\ min_i' = r.i
    /\ agile_pc' = "done"
    /\ UNCHANGED <<tariff_config, prices, agile_off_peak1, util>>
    /\ UNCHANGED charge_vars

\* ------------------------------------------------------------------------
\* CHARGE_NEEDED - helper functions
\* ------------------------------------------------------------------------

Min(a, b) == IF a < b THEN a ELSE b

\* Python v[i], i counted from 0, a negative i counted from the end:
\* whether the index exists, and the position in the sequence
py_has(v, i) == -Len(v) <= i /\ i < Len(v)

py_pos(v, i) == IF i < 0 THEN Len(v) + i + 1 ELSE i + 1

\* linear interpolation in a list, f counted from 0
interpolate(f, v) ==
    IF Len(v) = 0 THEN None
    ELSE IF Lt(f, I(0)) THEN v[1]
    ELSE IF Le(I(Len(v) - 1), f) THEN v[Len(v)]
    ELSE LET i == int(f)
             x == Sub(f, I(i))
         IN  Add(Mul(v[i + 1], Sub(I(1), x)), Mul(v[i + 2], x))

\* how consumption varies by hour across a day
no_profile == List([h \in 1..24 |-> I(50)])

\* how generation varies by hour across a winter day
winter_sun ==
    LET sun == <<0, 0, 0, 0, 0, 0, 0, 0, 5, 20, 55, 85, 99, 85, 55, 20, 5, 0, 0, 0, 0, 0, 0, 0>>
    IN  List([h \in 1..24 |-> I(sun[h])])

\* rotate 24 hour list so it aligns with hour_now and cover run_time
timed_list(list, hour_now, run_time) ==
    LET h     == int(hour_now)
        data1 == List([k \in 1..24 |-> list[((h + k - 1) % 24) + 1]])
    IN  SubSeq(data1 \o data1, 1, Min(48, run_time))

\* take forecast and return (value and timed profile)
forecast_value_timed(forecast, hour_now, run_time, time_offset) ==
    LET at(hourly, h) == hourly[int(round_time(I(h - time_offset))) + 1]
        profile == List([k \in 1..24 |-> at(forecast.tomorrow, k - 1)])
        timed   == List([k \in 1..(24 - int(hour_now)) |->
                            at(forecast.today, int(hour_now) + k - 1)])
        all     == timed \o profile \o profile
    IN  [value |-> forecast.kwh, timed |-> SubSeq(all, 1, Min(Len(all), run_time))]

\* ------------------------------------------------------------------------
\* CHARGE_NEEDED - parameters, dates and times, next charge period
\* ------------------------------------------------------------------------

\* store_settings, if the settings of a call were not stored
store_settings_dropped(config, settings) == config

\* the keys of settings that are keys of charge_config replace its values
store_settings(config, settings) ==
    [k \in DOMAIN config |-> IF k \in DOMAIN settings THEN settings[k] ELSE config[k]]

hour_now_of(d) == Add(I(d.hour), Q(d.minute, 60))

\* time_to_pm: None when the PM period starts at 00:00
time_to_pm_of(start_pm, base_hour) ==
    IF Lt(I(0), start_pm) THEN round_time(Sub(start_pm, I(base_hour))) ELSE None

\* a variant that lets settings change as soon as the charging period ends
no_go_until_end(time_to, hour_now, start, end) ==
    /\ time_to # None
    /\ hour_in(hour_now, [start |-> round_time(Sub(start, Q(1, 4))), end |-> end])

\* no settings changes from 15 minutes before to 15 minutes after a charging period
no_go(time_to, hour_now, start, end) ==
    /\ time_to # None
    /\ hour_in(hour_now, [start |-> round_time(Sub(start, Q(1, 4))),
                          end |-> round_time(Add(end, Q(1, 4)))])

\* a variant that takes the PM period when the AM period starts sooner
charge_pm_if_later(time_to_pm, time_to_am) == time_to_pm # None /\ Lt(time_to_am, time_to_pm)

\* the PM period is the next charge period
charge_pm_of(time_to_pm, time_to_am) == time_to_pm # None /\ Lt(time_to_pm, time_to_am)

\* hours to run the time line for
run_time_of(charge_pm, time_to_am, time_to_pm, hour_adjustment) ==
    int(Add(IF charge_pm THEN time_to_am
            ELSE IF time_to_pm = None THEN Add(time_to_am, I(24)) ELSE time_to_pm,
            Q(99, 100))) + 1 + hour_adjustment

\* full_charge is the date of tomorrow, here "tomorrow", or "None"
full_charge_of(setting, charge_pm, day_tomorrow) ==
    IF charge_pm \/ setting = "None" THEN "None"
    ELSE IF setting = "daily" \/ setting = day_tomorrow THEN "tomorrow" ELSE "None"

\* lines 1890-1933: store the settings, default the parameters, get dates and times
charge_needed_begin ==
    /\ pc = "begin"
    /\ charge_config' = store_settings(charge_config, args.settings)
    /\ cn' = [unknown_settings |-> DOMAIN args.settings \ DOMAIN charge_config,
              timed_mode |-> IF args.timed_mode = -1
                             THEN (IF tariff.default_mode # "None" THEN 1 ELSE 0)
                             ELSE args.timed_mode,
              update_settings |-> args.update_settings,
              base_hour |-> data.hour,
              hour_now |-> hour_now_of(data),
              hour_adjustment |-> data.hour_adjustment,
              change_hour |-> data.change_hour,
              force_charge |-> IF args.force_charge = -1 THEN 0 ELSE args.force_charge,
              result |-> "running"]
    /\ pc' = "window"
    /\ UNCHANGED <<battery_capacity, tariff, args, data, calls>>
    /\ UNCHANGED <<agile_vars, util>>

\* lines 1934-1975: get next charge times from am/pm charge times
charge_needed_window ==
    /\ pc = "window"
    /\ LET start_am   == tariff.off_peak1.start
           end_am     == tariff.off_peak1.end
           force_charge_am == IF tariff.off_peak1.force = 0 \/ cn.force_charge = 0
                              THEN 0 ELSE cn.force_charge
           time_to_am == round_time(Sub(start_am, I(cn.base_hour)))
           start_pm   == tariff.off_peak2.start
           end_pm     == tariff.off_peak2.end
           force_charge_pm == IF tariff.off_peak2.force = 0 \/ cn.force_charge = 0
                              THEN 0 ELSE 1
           time_to_pm == time_to_pm_of(start_pm, cn.base_hour)
           no_go1     == no_go(time_to_am, cn.hour_now, start_am, end_am)
           no_go2     == no_go(time_to_pm, cn.hour_now, start_pm, end_pm)
           charge_pm  == charge_pm_of(time_to_pm, time_to_am)
           start_at   == IF charge_pm THEN start_pm ELSE start_am
           end_by     == IF charge_pm THEN end_pm ELSE end_am
           time_to_start == IF charge_pm THEN time_to_pm ELSE time_to_am
           start_hour == Add(I(cn.base_hour), time_to_start)
       IN  cn' = [no_go1 |-> no_go1, no_go2 |-> no_go2,
                  start_am |-> start_am, end_am |-> end_am, time_to_am |-> time_to_am,
                  start_pm |-> start_pm, end_pm |-> end_pm, time_to_pm |-> time_to_pm,
                  force_charge_am |-> force_charge_am, force_charge_pm |-> force_charge_pm,
                  update_settings |-> IF (no_go1 \/ no_go2) /\ cn.update_settings > 0
                                      THEN 0 ELSE cn.update_settings,
                  charge_pm |-> charge_pm,
                  force_charge |-> IF charge_pm THEN force_charge_pm ELSE force_charge_am,
                  start_at |-> start_at, end_by |-> end_by,
                  charge_time |-> round_time(Sub(end_by, start_at)),
                  time_to_start |-> time_to_start,
                  start_hour |-> start_hour,
                  time_to_next |-> IF cn.hour_adjustment < 0 /\ Lt(I(cn.change_hour), start_hour)
                                   THEN int(time_to_start) - 1 ELSE int(time_to_start),
                  run_time |-> run_time_of(charge_pm, time_to_am, time_to_pm, cn.hour_adjustment),
                  full_charge |-> full_charge_of(charge_config.full_charge, charge_pm,
                                                 data.day_tomorrow)]
                 @@ cn
    /\ pc' = "battery"
    /\ UNCHANGED <<battery_capacity, tariff, charge_config, args, data, calls>>
    /\ UNCHANGED <<agile_vars, util>>


\* ------------------------------------------------------------------------
\* CHARGE_NEEDED - battery and device info, charge and discharge limits
\* ------------------------------------------------------------------------

\* charge_needed returns None before a plan is made
return_none(why) == cn' = [result |-> why] @@ cn

\* Min SoC: the setting, or what the inverter reports, or None
min_soc_of(config, d) == IF config.min_soc # None THEN config.min_soc ELSE d.minGridSoc

\* battery capacity: the setting, or worked out from residual and SoC, or None
capacity_of(config, residual, current_soc) ==
    IF config.capacity # None THEN config.capacity
    ELSE IF Lt(I(0), residual) /\ Lt(I(0), current_soc)
         THEN Div(Mul(residual, I(100)), current_soc)
    ELSE None

\* the derating index, if the quotient were rounded to the nearest whole number
derate_index_rounded(config, temperature) ==
    Round0(Div(Sub(config.derate_temp, temperature),
               IF config.derate_step # None /\ Lt(I(0), config.derate_step)
               THEN config.derate_step ELSE I(1)))

\* index into the derating table for a battery temperature
derate_index(config, temperature) ==
    int(Div(Sub(config.derate_temp, temperature),
            IF config.derate_step # None /\ Lt(I(0), config.derate_step)
            THEN config.derate_step ELSE I(1)))

\* charge times are derated based on temperature: the charge current to use
\* and the force_charge that results
derated(config, temperature, charge_current, force_charge) ==
    IF Lt(I(36), temperature) THEN [charge_current |-> charge_current, force_charge |-> force_charge]
    ELSE IF Le(I(Round0(temperature)), config.derate_temp)
    THEN LET i == derate_index(config, temperature)
         IN  IF i < Len(config.derating)
             THEN [charge_current |-> IF Lt(config.derating[i + 1], charge_current)
                                      THEN config.derating[i + 1] ELSE charge_current,
                   force_charge |-> force_charge]
             ELSE [charge_current |-> charge_current, force_charge |-> 2]
    ELSE [charge_current |-> charge_current, force_charge |-> force_charge]

\* charge limit = max power going into the battery after ac conversion losses
charge_limit_of(device_power, grid_loss, charge_power) ==
    IF Lt(charge_power, Q(1, 10)) THEN Mul(device_power, grid_loss)
    ELSE IF Lt(charge_power, Mul(device_power, grid_loss)) THEN charge_power
    ELSE Mul(device_power, grid_loss)

\* lines 1976-2092
charge_needed_battery ==
    /\ pc = "battery"
    /\ LET battery  == data.battery
           min_soc  == min_soc_of(charge_config, data)
           residual == Div(battery.residual, I(1000))
           capacity == capacity_of(charge_config, residual, battery.soc)
       IN  IF min_soc = None THEN return_none("no min_soc") /\ pc' = "done"
           ELSE IF battery.status # 1 THEN return_none("no battery status") /\ pc' = "done"
           ELSE IF capacity = None THEN return_none("no capacity") /\ pc' = "done"
           ELSE
           LET volt_nominal == interpolate(Div(charge_config.nominal_soc, I(10)),
                                           charge_config.volt_curve)
               bat_count    == int(Add(Div(battery.volt, volt_nominal), Q(1, 2)))
               bat_resistance == Mul(charge_config.bat_resistance, I(bat_count))
               bat_ocv      == Div(Mul(Add(battery.volt, Mul(battery.current, bat_resistance)),
                                       volt_nominal),
                                   interpolate(Div(battery.soc, I(10)), charge_config.volt_curve))
               reserve      == Div(Mul(capacity, min_soc), I(100))
               device_power == data.device.power
               derate       == derated(charge_config, battery.temperature,
                                       IF charge_config.charge_current = None
                                       THEN data.device.max_charge_current
                                       ELSE charge_config.charge_current,
                                       cn.force_charge)
               charge_current == derate.charge_current
               charge_power == Div(Mul(charge_current,
                                       Add(bat_ocv, Mul(charge_current, bat_resistance))), I(1000))
               charge_limit == charge_limit_of(device_power, charge_config.grid_loss, charge_power)
               inverter_power == IF charge_config.inverter_power # None
                                 THEN charge_config.inverter_power
                                 ELSE I(Round0(device_power) * 20)
               bms_power    == charge_config.bms_power
               charge_loss  == IF charge_config.charge_loss # None THEN charge_config.charge_loss
                               ELSE Sub(Sub(I(1),
                                            Div(Mul(Mul(charge_limit, I(1000)), bat_resistance),
                                                Mul(bat_ocv, bat_ocv))),
                                        Div(Div(bms_power, charge_limit), I(1000)))
               discharge_current == IF charge_config.discharge_current = None
                                    THEN data.device.max_charge_current
                                    ELSE charge_config.discharge_current
               discharge_power == Div(Mul(discharge_current, bat_ocv), I(1000))
               export_power == IF charge_config.export_limit = None THEN device_power
                               ELSE charge_config.export_limit
           IN  /\ cn' = [min_soc |-> min_soc, capacity |-> capacity,
                         current_soc |-> battery.soc, residual |-> residual,
                         temperature |-> battery.temperature,
                         reserve |-> reserve,
                         charge_current |-> charge_current,
                         force_charge |-> derate.force_charge,
                         charge_limit |-> charge_limit,
                         bms_power |-> bms_power,
                         charge_loss |-> charge_loss,
                         operating_loss |-> Div(inverter_power, I(1000)),
                         discharge_limit |-> IF Lt(discharge_power, device_power)
                                             THEN discharge_power ELSE device_power,
                         export_limit |-> Div(export_power, charge_config.discharge_loss)]
                        @@ cn
               /\ pc' = "timelines"
    /\ battery_capacity' = IF charge_config.capacity # None /\ battery_capacity = None
                           THEN charge_config.capacity ELSE battery_capacity
    /\ UNCHANGED <<tariff, charge_config, args, data, calls>>
    /\ UNCHANGED <<agile_vars, util>>

\* ------------------------------------------------------------------------
\* CHARGE_NEEDED - consumption and generation time lines
\* ------------------------------------------------------------------------

\* a forecast that could not be obtained
NoForecast == [has |-> FALSE]

\* the hours when a forecast can be fetched
forecast_times_of(a, t) == IF a.forecast_times = {} THEN t.forecast_times ELSE a.forecast_times

\* whether a forecast is fetched: no manual forecast, the service is set up
\* and it is an hour to get a forecast (or run_after is 0)
forecast_fetched(a, t, set_up, base_hour) ==
    /\ a.forecast = None
    /\ set_up
    /\ (base_hour \in forecast_times_of(a, t) \/ a.run_after = 0)

\* a forecast value and time line after the % adjustment
adjusted(vt, adjust) ==
    IF adjust = 100 THEN vt
    ELSE [value |-> Div(Mul(vt.value, I(adjust)), I(100)),
          timed |-> List([k \in 1..Len(vt.timed) |->
                             Div(Mul(vt.timed[k], I(adjust)), I(100))])]

\* a variant that prefers forecast.solar to Solcast
generation_source_solar_first(forecast, solcast_value, solar_value, generation) ==
    IF forecast # None THEN "manual"
    ELSE IF solar_value # None THEN "solar"
    ELSE IF solcast_value # None THEN "solcast"
    ELSE IF generation = None \/ generation = I(0) THEN "none"
    ELSE "generation"

\* which expected value is used: the manual forecast, Solcast, forecast.solar,
\* the generation history, or none
generation_source(forecast, solcast_value, solar_value, generation) ==
    IF forecast # None THEN "manual"
    ELSE IF solcast_value # None THEN "solcast"
    ELSE IF solar_value # None THEN "solar"
    ELSE IF generation = None \/ generation = I(0) THEN "none"
    ELSE "generation"

\* settings are not updated from the generation history when forecast_selection is 1
update_without_forecast(config, update_settings) ==
    IF config.forecast_selection = 1 /\ update_settings > 0
    THEN (IF update_settings = 3 THEN 2 ELSE 0)
    ELSE update_settings

\* charge and discharge in hour i of the time line (from 0) after the power
\* limits and the work mode in that hour
adjusted_hour(c, t, timed_mode, charge, discharge) ==
    LET ch == IF Lt(c.charge_limit, charge) THEN c.charge_limit ELSE charge
        di == IF Lt(c.discharge_limit, discharge) THEN c.discharge_limit ELSE discharge
        held == IF ch = I(0) THEN c.operating_loss ELSE I(0)
    IN  [force_am |-> <<ch, held>>,
         force_pm |-> <<ch, held>>,
         backup   |-> <<ch, held>>,
         feedin   |-> <<IF Le(ch, Add(c.export_limit, di)) THEN I(0)
                        ELSE Sub(Sub(ch, c.export_limit), di),
                        IF Le(di, ch) THEN I(0) ELSE Sub(di, ch)>>,
         other    |-> <<ch, di>>]

\* what applies in the hour h: force charge, a timed work mode, or neither
hour_mode(c, t, timed_mode, h) ==
    IF c.force_charge_am = 1 /\ hour_in(I(h), [start |-> c.start_am, end |-> c.end_am])
    THEN "force_am"
    ELSE IF c.force_charge_pm = 1 /\ hour_in(I(h), [start |-> c.start_pm, end |-> c.end_pm])
    THEN "force_pm"
    ELSE IF timed_mode > 0 /\ hour_in(I(h), t.modes["Backup"]) THEN "backup"
    ELSE IF timed_mode > 0 /\ hour_in(I(h), t.modes["Feedin"]) THEN "feedin"
    ELSE "other"

\* the forecast value and time line when a forecast is fetched and has
\* tomorrow in it
forecast_obtained(fetched, forecast, hour_now, run_time, time_offset, adjust) ==
    IF fetched /\ forecast.has
    THEN adjusted(forecast_value_timed(forecast, hour_now, run_time, time_offset), adjust)
    ELSE [value |-> None, timed |-> <<>>]

\* lines 2093-2215
charge_needed_timelines ==
    /\ pc = "timelines"
    /\ \E by_hour \in {data.loads.profile},
          solcast \in {forecast_obtained(
                           forecast_fetched(args, tariff, data.solcast_api_key, cn.base_hour),
                           data.fsolcast, cn.hour_now, cn.run_time, data.time_offset,
                           charge_config.solcast_adjust)},
          solar \in {forecast_obtained(
                         forecast_fetched(args, tariff, data.solar_arrays, cn.base_hour),
                         data.fsolar, cn.hour_now, cn.run_time, 0,
                         charge_config.solar_adjust)},
          sun_timed \in {timed_list(winter_sun, cn.hour_now, cn.run_time)} :
       LET consumption == data.loads.value
           daily_sum   == SumSeq(by_hour)
           generation  == data.generation
           sun_sum     == SumSeq(winter_sun)
           source      == generation_source(args.forecast, solcast.value, solar.value, generation)
           expected    == IF source = "manual" THEN args.forecast
                          ELSE IF source = "solcast" THEN solcast.value
                          ELSE IF source = "solar" THEN solar.value
                          ELSE generation
       IN  IF consumption = None THEN return_none("no consumption") /\ pc' = "done"
           ELSE IF daily_sum = I(0) THEN return_none("ZeroDivisionError") /\ pc' = "done"
           ELSE IF source = "none" THEN return_none("no generation") /\ pc' = "done"
           ELSE
           \E consumption_timed \in
                  {timed_list(List([k \in 1..24 |-> Div(Mul(consumption, by_hour[k]), daily_sum)]),
                              cn.hour_now, cn.run_time)},
              generation_timed \in
                  {IF source = "solcast" THEN solcast.timed
                   ELSE IF source = "solar" THEN solar.timed
                   ELSE List([k \in 1..Len(sun_timed) |->
                                 Div(Mul(expected, sun_timed[k]), sun_sum)])} :
           \E charge0 \in {List([k \in 1..Len(generation_timed) |->
                                    Mul(generation_timed[k], charge_config.pv_loss)])},
              discharge0 \in {List([k \in 1..Len(consumption_timed) |->
                                 Add(Div(consumption_timed[k], charge_config.discharge_loss),
                                     Div(charge_config.bms_power, I(1000)))])} :
               IF Len(charge0) < cn.run_time \/ Len(discharge0) < cn.run_time
                  \/ Len(charge0) = 0 \/ Len(discharge0) = 0
               THEN return_none("IndexError") /\ pc' = "done"
               ELSE
               \E hours \in {List([k \in 1..cn.run_time |->
                            adjusted_hour(cn, tariff, cn.timed_mode, charge0[k], discharge0[k])
                                [hour_mode(cn, tariff, cn.timed_mode, cn.base_hour + k - 1)]])} :
                    /\ cn' = [consumption |-> consumption,
                              source |-> source,
                              expected |-> expected,
                              update_settings |-> IF source = "generation"
                                  THEN update_without_forecast(charge_config, cn.update_settings)
                                  ELSE cn.update_settings,
                              charge_timed |-> List([k \in 1..Len(charge0) |->
                                  IF k <= cn.run_time THEN hours[k][1] ELSE charge0[k]]),
                              discharge_timed |-> List([k \in 1..Len(discharge0) |->
                                  IF k <= cn.run_time THEN hours[k][2] ELSE discharge0[k]])]
                             @@ cn
                    /\ pc' = "baseline"
    /\ UNCHANGED <<battery_capacity, tariff, charge_config, args, data, calls>>
    /\ UNCHANGED <<agile_vars, util>>


\* ------------------------------------------------------------------------
\* CHARGE_NEEDED - the battery residual over the run time
\* ------------------------------------------------------------------------

\* kWh going into the battery in each hour
kwh_timed_of(charge_timed, discharge_timed, charge_loss) ==
    List([k \in 1..Min(Len(charge_timed), Len(discharge_timed)) |->
             Sub(Mul(charge_timed[k], charge_loss), discharge_timed[k])])

\* adjust residual from hour_now to what it was at the start of current hour
kwh_start(c, kwh_timed) ==
    Sub(c.residual, Mul(kwh_timed[1], Sub(c.hour_now, I(c.base_hour))))

\* a variant without the limit at the capacity
battery_full_unchecked(kwh_current, capacity) == kwh_current

\* battery is full
battery_full(kwh_current, capacity) ==
    IF Lt(capacity, kwh_current) THEN capacity ELSE kwh_current

\* battery is empty, if both passes held the residual at reserve in any hour
battery_empty_any_hour(kwh_current, reserve, i, last) == Le(kwh_current, reserve)

\* battery is empty: in the first pass up to the hour when charging starts,
\* in the second pass (last = run_time) in any hour
battery_empty(kwh_current, reserve, i, last) == Le(kwh_current, reserve) /\ i <= last

\* one hour of the time line, if the drain on the reserve went on below 6% of
\* the capacity
residual_hour_drained(c, s, i, last, kwh) ==
    LET empty == battery_empty(s.kwh_current, c.reserve, i, last)
        drain == IF ~empty THEN c.reserve ELSE s.reserve_drain
        kwh_current == battery_full(IF empty THEN drain ELSE s.kwh_current, c.capacity)
        lower == Lt(kwh_current, s.kwh_min)
    IN  [kwh_current   |-> Add(kwh_current, kwh),
         reserve_drain |-> IF empty THEN Sub(drain, Div(c.bms_power, I(1000))) ELSE c.reserve,
         bat_timed     |-> Append(s.bat_timed, kwh_current),
         kwh_min       |-> IF lower THEN kwh_current ELSE s.kwh_min,
         min_hour      |-> IF lower THEN c.base_hour + i ELSE s.min_hour]

\* one hour of the time line: s is the residual and the drain on the reserve
\* going into hour i, kwh is what the hour adds
residual_hour(c, s, i, last, kwh) ==
    LET empty == battery_empty(s.kwh_current, c.reserve, i, last)
        drain == IF ~empty THEN c.reserve
                 ELSE IF Lt(s.reserve_drain, Div(Mul(c.capacity, I(6)), I(100)))
                 THEN c.reserve
                 ELSE s.reserve_drain
        kwh_current == battery_full(IF empty THEN drain ELSE s.kwh_current, c.capacity)
        lower == Lt(kwh_current, s.kwh_min)
    IN  [kwh_current   |-> Add(kwh_current, kwh),
         reserve_drain |-> IF empty THEN Sub(drain, Div(c.bms_power, I(1000))) ELSE c.reserve,
         bat_timed     |-> Append(s.bat_timed, kwh_current),
         kwh_min       |-> IF lower THEN kwh_current ELSE s.kwh_min,
         min_hour      |-> IF lower THEN c.base_hour + i ELSE s.min_hour]

RECURSIVE residual_track(_, _, _, _, _)
residual_track(c, kwh_timed, last, i, s) ==
    IF Len(s.bat_timed) >= c.run_time THEN s
    ELSE residual_track(c, kwh_timed, last, i + 1, residual_hour(c, s, i, last, kwh_timed[i + 1]))

\* the residual over the run time from the charge and discharge time lines
residual_timed(c, charge_timed, discharge_timed, last) ==
    LET kwh_timed == kwh_timed_of(charge_timed, discharge_timed, c.charge_loss)
        kwh_current == kwh_start(c, kwh_timed)
    IN  residual_track(c, kwh_timed, last, 0,
                       [kwh_current |-> kwh_current, reserve_drain |-> c.reserve,
                        bat_timed |-> <<>>, kwh_min |-> kwh_current, min_hour |-> c.base_hour])

\* lines 2216-2242: track the battery residual if we don't add any charge
charge_needed_baseline ==
    /\ pc = "baseline"
    /\ \E s \in {residual_timed(cn, cn.charge_timed, cn.discharge_timed, cn.time_to_next)} :
           cn' = [bat_timed |-> s.bat_timed, kwh_min |-> s.kwh_min, min_hour |-> s.min_hour]
                 @@ cn
    /\ pc' = "contingency"
    /\ UNCHANGED <<battery_capacity, tariff, charge_config, args, data, calls>>
    /\ UNCHANGED <<agile_vars, util>>

\* ------------------------------------------------------------------------
\* CHARGE_NEEDED - what to add to stay above reserve and provide contingency
\* ------------------------------------------------------------------------

\* the % of consumption to allow as contingency
contingency_of(config, tomorrow, charge_pm) ==
    IF tomorrow \in config.special_days /\ ~charge_pm
    THEN config.special_contingency ELSE config.contingency

\* a variant that leaves out the reserve
kwh_needed_without_reserve(reserve, kwh_contingency, kwh_min) == Sub(kwh_contingency, kwh_min)

\* a variant that takes the contingency off
kwh_needed_less_contingency(reserve, kwh_contingency, kwh_min) ==
    Sub(Sub(reserve, kwh_contingency), kwh_min)

\* the charge that keeps the lowest residual at the reserve plus the contingency
kwh_needed_of(reserve, kwh_contingency, kwh_min) ==
    Sub(Add(reserve, kwh_contingency), kwh_min)

\* lines 2243-2248
charge_needed_contingency ==
    /\ pc = "contingency"
    /\ LET contingency == contingency_of(charge_config, data.tomorrow, cn.charge_pm)
           kwh_contingency == Div(Mul(cn.consumption, I(contingency)), I(100))
       IN  cn' = [contingency |-> contingency,
                  kwh_contingency |-> kwh_contingency,
                  kwh_needed |-> kwh_needed_of(cn.reserve, kwh_contingency, cn.kwh_min),
                  start_residual |-> interpolate(cn.time_to_start, cn.bat_timed)]
                 @@ cn
    /\ pc' = "plan"
    /\ UNCHANGED <<battery_capacity, tariff, charge_config, args, data, calls>>
    /\ UNCHANGED <<agile_vars, util>>

\* a variant that does not look at the reserve
no_charge_at_min_kwh(c, config, kwh_needed, test_charge) ==
    /\ Le(kwh_needed, config.min_kwh)
    /\ c.full_charge = "None"
    /\ test_charge = None

\* no charging is needed
no_charge_needed(c, config, kwh_needed, test_charge) ==
    /\ Lt(c.reserve, c.kwh_min)
    /\ Lt(kwh_needed, config.min_kwh)
    /\ c.full_charge = "None"
    /\ test_charge = None

\* time to add kwh_needed to the battery
charge_hours(c, kwh_needed) ==
    LET taper_time == IF Le(Mul(c.capacity, Q(95, 100)), Add(c.start_residual, kwh_needed))
                      THEN Q(10, 60) ELSE I(0)
        rate == Add(Mul(c.charge_limit, c.charge_loss),
                    c.discharge_timed[py_pos(c.discharge_timed, c.time_to_next)])
    IN  round_time(Add(Div(kwh_needed, rate), taper_time))

\* full charge if requested or charge time exceeded or charge needed exceeds capacity
full_charge_used(c, kwh_needed, hours) ==
    \/ c.full_charge # "None"
    \/ c.force_charge = 2
    \/ Lt(c.charge_time, hours)
    \/ Lt(Mul(c.capacity, Q(105, 100)), Add(c.start_residual, kwh_needed))

\* lines 2249-2276: the charge to add and the time it takes, given the
\* kwh_needed of line 2246
charge_plan(c, config, kwh_needed, test_charge) ==
    IF no_charge_needed(c, config, kwh_needed, test_charge)
    THEN [charge_message |-> "no charge needed", kwh_needed |-> I(0), hours |-> I(0),
          end1 |-> c.start_at, full |-> FALSE]
    ELSE IF ~py_has(c.discharge_timed, c.time_to_next)
    THEN [charge_message |-> "IndexError", kwh_needed |-> kwh_needed, hours |-> None,
          end1 |-> None, full |-> FALSE]
    ELSE LET kwh   == IF test_charge = None THEN kwh_needed ELSE test_charge
             hours == charge_hours(c, kwh)
             full  == full_charge_used(c, kwh, hours)
             hours1 == IF full THEN c.charge_time
                       ELSE IF Lt(hours, config.min_hours) THEN config.min_hours
                       ELSE hours
         IN  [charge_message |-> IF test_charge = None THEN "with charge added"
                                 ELSE "** test charge **",
              kwh_needed |-> IF full THEN Sub(c.capacity, c.start_residual) ELSE kwh,
              hours |-> hours1,
              end1 |-> round_time(Add(c.start_at, hours1)),
              full |-> full]

\* lines 2249-2276
charge_needed_plan ==
    /\ pc = "plan"
    /\ \E plan \in {charge_plan(cn, charge_config, cn.kwh_needed, args.test_charge)} :
           /\ cn' = [charge_message |-> plan.charge_message,
                     kwh_needed |-> plan.kwh_needed,
                     hours |-> plan.hours,
                     end1 |-> plan.end1,
                     result |-> IF plan.charge_message = "IndexError" THEN "IndexError"
                                ELSE cn.result]
                    @@ cn
           /\ pc' = IF plan.charge_message = "IndexError" THEN "done"
                    ELSE IF plan.charge_message = "no charge needed" THEN "settings"
                    ELSE "add_charge"
    /\ UNCHANGED <<battery_capacity, tariff, charge_config, args, data, calls>>
    /\ UNCHANGED <<agile_vars, util>>


\* ------------------------------------------------------------------------
\* CHARGE_NEEDED - rework charge and discharge with the charge added
\* ------------------------------------------------------------------------

\* time (fraction of hour) when charging in the hour from i to i + 1
charge_fraction(start_timed, end_timed, i) ==
    LET j == i + 1
    IN  IF Le(I(i), start_timed) /\ Lt(end_timed, I(j)) THEN Sub(end_timed, start_timed)
        ELSE IF Le(I(i), start_timed) /\ Lt(start_timed, I(j)) /\ Le(I(j), end_timed)
        THEN Sub(I(j), start_timed)
        ELSE IF Lt(I(i), end_timed) /\ Le(end_timed, I(j)) /\ Le(start_timed, I(i))
        THEN Sub(end_timed, I(i))
        ELSE IF Le(start_timed, I(i)) /\ Lt(I(j), end_timed) THEN I(1)
        ELSE I(0)

\* the time lines after charge is added in the hours from i up to n;
\* ok is FALSE when an hour is not in the time lines
RECURSIVE add_charge(_, _, _, _)
add_charge(c, i, n, lines) ==
    IF i >= n \/ ~lines.ok THEN lines
    ELSE IF ~py_has(lines.charge_timed, i) \/ ~py_has(lines.discharge_timed, i)
    THEN [lines EXCEPT !.ok = FALSE]
    ELSE LET t  == charge_fraction(c.time_to_start, Add(c.time_to_start, c.hours), i)
             kc == py_pos(lines.charge_timed, i)
             kd == py_pos(lines.discharge_timed, i)
             charge == Add(lines.charge_timed[kc], Mul(c.charge_limit, t))
         IN  add_charge(c, i + 1, n,
                 [ok |-> TRUE,
                  charge_timed |-> [lines.charge_timed EXCEPT
                      ![kc] = IF Lt(charge, c.charge_limit) THEN charge ELSE c.charge_limit],
                  discharge_timed |-> [lines.discharge_timed EXCEPT
                      ![kd] = Mul(lines.discharge_timed[kd], Sub(I(1), t))]])

\* lines 2277-2328
charge_needed_add_charge ==
    /\ pc = "add_charge"
    /\ \E lines \in {add_charge(cn, cn.time_to_next,
                                  int(Add(Add(I(cn.time_to_next), cn.hours), I(2))),
                                  [ok |-> TRUE, charge_timed |-> cn.charge_timed,
                                   discharge_timed |-> cn.discharge_timed])} :
       \E s \in {residual_timed(cn, lines.charge_timed, lines.discharge_timed, cn.run_time)} :
       LET end_timed == Add(cn.time_to_start, cn.hours)
           time_to_end == int(end_timed) + 1
       IN  IF ~lines.ok \/ ~py_has(s.bat_timed, time_to_end)
           THEN return_none("IndexError") /\ pc' = "done"
           ELSE
           LET kwh_added == Sub(s.bat_timed[py_pos(s.bat_timed, time_to_end)],
                                cn.bat_timed[py_pos(cn.bat_timed, time_to_end)])
               old_residual == interpolate(end_timed, cn.bat_timed)
               new_residual == IF Lt(cn.capacity, Add(old_residual, kwh_added))
                               THEN cn.capacity ELSE Add(old_residual, kwh_added)
           IN  /\ cn' = [charge_timed_old |-> cn.charge_timed,
                         discharge_timed_old |-> cn.discharge_timed,
                         charge_timed |-> lines.charge_timed,
                         discharge_timed |-> lines.discharge_timed,
                         bat_timed_old |-> cn.bat_timed,
                         bat_timed |-> s.bat_timed,
                         time_to_end |-> time_to_end,
                         kwh_added |-> kwh_added,
                         new_residual |-> new_residual,
                         net_added |-> Sub(new_residual, cn.start_residual)]
                        @@ cn
               /\ pc' = "settings"
    /\ UNCHANGED <<battery_capacity, tariff, charge_config, args, data, calls>>
    /\ UNCHANGED <<agile_vars, util>>

\* ------------------------------------------------------------------------
\* CHARGE_NEEDED - charge periods settings and timed work mode change
\* ------------------------------------------------------------------------

NoCall == [fn |-> "None", mode |-> "None", st1 |-> None, en1 |-> None,
           st2 |-> None, en2 |-> None, adjust |-> 0, force |-> 0]

\* the work mode for the time now, if the first mode whose period has the
\* time now were kept
RECURSIVE target_mode_first(_, _, _, _)
target_mode_first(t, hour_now, k, target) ==
    IF k > Len(work_modes) THEN target
    ELSE LET w == work_modes[k]
             p == t.modes[w]
         IN  IF hour_in(hour_now, p)
             THEN [mode |-> w, required_soc |-> IF "min_soc" \in DOMAIN p THEN p.min_soc ELSE 0]
             ELSE target_mode_first(t, hour_now, k + 1, target)

\* the work mode for the time now and the SoC it requires
RECURSIVE target_mode_of(_, _, _, _)
target_mode_of(t, hour_now, k, target) ==
    IF k > Len(work_modes) THEN target
    ELSE LET w == work_modes[k]
             p == t.modes[w]
         IN  target_mode_of(t, hour_now, k + 1,
                 IF hour_in(hour_now, p)
                 THEN [mode |-> w,
                       required_soc |-> IF "min_soc" \in DOMAIN p THEN p.min_soc ELSE 0]
                 ELSE target)

\* adjust times for clock changes
clock_adjust(c) ==
    IF c.hour_adjustment # 0 /\ Lt(I(c.change_hour), c.start_hour) THEN c.hour_adjustment ELSE 0

\* lines 2377-2411
charge_needed_settings ==
    /\ pc = "settings"
    /\ IF args.test_charge # None
       THEN return_none("test charge") /\ UNCHANGED calls
       ELSE
       LET start2 == round_time(IF cn.hours = I(0) THEN cn.start_at
                                ELSE Add(cn.end1, Q(1, 60)))
           end2   == IF cn.force_charge = 1
                        /\ hour_in(start2, [start |-> cn.start_at, end |-> cn.end_by])
                     THEN cn.end_by ELSE start2
           charge_calls == IF cn.update_settings \in {1, 3}
                           THEN <<[NoCall EXCEPT !.fn = "set_charge",
                                                 !.st1 = cn.start_at, !.en1 = cn.end1,
                                                 !.st2 = start2, !.en2 = end2,
                                                 !.adjust = clock_adjust(cn),
                                                 !.force = charge_config.force]>>
                           ELSE <<>>
           target == target_mode_of(tariff, cn.hour_now, 1,
                                    [mode |-> tariff.default_mode, required_soc |-> 0])
           mode_calls == IF cn.update_settings \in {0, 1} \/ tariff.default_mode = "None"
                            \/ data.work_mode = "None"
                         THEN <<>>
                         ELSE IF cn.update_settings \in {2, 3} /\ data.work_mode # target.mode
                                 /\ Le(I(target.required_soc), cn.current_soc)
                         THEN <<[NoCall EXCEPT !.fn = "set_work_mode", !.mode = target.mode]>>
                         ELSE <<>>
       IN  /\ cn' = [start2 |-> start2, end2 |-> end2, result |-> "complete"] @@ cn
           /\ calls' = calls \o charge_calls \o mode_calls
    /\ pc' = "done"
    /\ UNCHANGED <<battery_capacity, tariff, charge_config, args, data>>
    /\ UNCHANGED <<agile_vars, util>>


\* ------------------------------------------------------------------------
\* Battery charging: the settings, snapshots and parameters explored
\* ------------------------------------------------------------------------

lifepo4_curve ==
    <<Q(5131, 100), Q(5184, 100), Q(5241, 100), Q(5245, 100), Q(5250, 100), Q(5264, 100),
      Q(5297, 100), Q(5310, 100), Q(5316, 100), Q(5363, 100), Q(5500, 100)>>

\* charge_needed settings as the module is loaded
charge_config_loaded ==
    [contingency |-> 20, capacity |-> None, min_soc |-> None, charge_current |-> None,
     discharge_current |-> None, export_limit |-> None, discharge_loss |-> Q(97, 100),
     pv_loss |-> Q(95, 100), grid_loss |-> Q(95, 100), charge_loss |-> None,
     inverter_power |-> None, bms_power |-> I(27), bat_resistance |-> Q(72, 1000),
     volt_curve |-> lifepo4_curve, nominal_soc |-> I(60), generation_days |-> 3,
     consumption_days |-> 3, consumption_span |-> "week", use_today |-> I(21),
     min_hours |-> Q(1, 4), min_kwh |-> Q(1, 2), solcast_adjust |-> 100,
     solar_adjust |-> 100, forecast_selection |-> 1, annual_consumption |-> None,
     timed_mode |-> 0, special_contingency |-> 33,
     special_days |-> {"12-25", "12-26", "01-01"}, full_charge |-> "None",
     derate_temp |-> I(22), derate_step |-> I(5),
     derating |-> <<I(24), I(15), I(10), I(2)>>, force |-> 1]

\* a battery with the same open circuit voltage at any SoC, no internal
\* resistance, and conversions without loss except when charging
plain_settings ==
    [discharge_loss |-> I(1), pv_loss |-> I(1), grid_loss |-> I(1), charge_loss |-> Q(9, 10),
     bms_power |-> I(50), bat_resistance |-> I(0), volt_curve |-> List([k \in 1..11 |-> I(50)])]

\* the parameters of a call with none given
no_args ==
    [forecast |-> None, update_settings |-> 0, timed_mode |-> -1, run_after |-> 1,
     forecast_times |-> {}, force_charge |-> -1, test_charge |-> None,
     settings |-> plain_settings]

\* a forecast of 4.29kWh for today and for tomorrow
a_forecast ==
    [has |-> TRUE, kwh |-> Q(429, 100),
     today |-> List([h \in 1..24 |-> Div(winter_sun[h], I(100))]),
     tomorrow |-> List([h \in 1..24 |-> Div(winter_sun[h], I(100))])]

\* what the cloud and the clock report: a 10kWh battery of 2 x 50V at 21:00
\* holding residual Wh, an inverter of 3kW and 40A, no forecast service set up
snapshot(residual) ==
    [hour |-> 21, minute |-> 0, hour_adjustment |-> 0, change_hour |-> 0,
     day_tomorrow |-> "Fri", tomorrow |-> "11-06", time_offset |-> 0,
     battery |-> [status |-> 1, soc |-> Q(residual, 100), volt |-> I(100), current |-> I(0),
                  temperature |-> Q(39, 2), residual |-> I(residual)],
     minGridSoc |-> I(10),
     device |-> [power |-> I(3), max_charge_current |-> I(40)],
     loads |-> [value |-> Q(24, 10), profile |-> no_profile],
     solcast_api_key |-> FALSE, fsolcast |-> NoForecast,
     solar_arrays |-> FALSE, fsolar |-> NoForecast,
     generation |-> Q(429, 100),
     work_mode |-> "SelfUse"]

\* ------------------------------------------------------------------------
\* Tariff selection
\* ------------------------------------------------------------------------

\* a str as the sequence of its characters
Text(chars) == [is |-> "str", chars |-> chars]

\* the name of a tariff, character by character
name_text(name) ==
    CASE name = "Octopus Flux" -> <<"O", "c", "t", "o", "p", "u", "s", " ", "F", "l", "u", "x">>
      [] name = "Intelligent Octopus" -> <<"I", "n", "t", "e", "l", "l", "i", "g", "e", "n", "t", " ", "O", "c", "t", "o", "p", "u", "s">>
      [] name = "Octopus Cosy" -> <<"O", "c", "t", "o", "p", "u", "s", " ", "C", "o", "s", "y">>
      [] name = "Octopus Go" -> <<"O", "c", "t", "o", "p", "u", "s", " ", "G", "o">>
      [] name = "Agile Octopus" -> <<"A", "g", "i", "l", "e", " ", "O", "c", "t", "o", "p", "u", "s">>
      [] name = "British Gas Electric Driver" -> <<"B", "r", "i", "t", "i", "s", "h", " ", "G", "a", "s", " ", "E", "l", "e", "c", "t", "r", "i", "c", " ", "D", "r", "i", "v", "e", "r">>
      [] name = "Custom" -> <<"C", "u", "s", "t", "o", "m">>

\* str.lower(), for the letters that tariff names and searches are made of
lower_char(c) ==
    CASE c = "A" -> "a"
      [] c = "B" -> "b"
      [] c = "C" -> "c"
      [] c = "D" -> "d"
      [] c = "E" -> "e"
      [] c = "F" -> "f"
      [] c = "G" -> "g"
      [] c = "I" -> "i"
      [] c = "L" -> "l"
      [] c = "O" -> "o"
      [] c = "U" -> "u"
      [] c = "X" -> "x"
      [] OTHER -> c

lower(chars) == [i \in 1..Len(chars) |-> lower_char(chars[i])]

\* Python's  sub in s  for two str
str_in(sub, s) == \E i \in 0..(Len(s) - Len(sub)) : SubSeq(s, i + 1, i + Len(sub)) = sub

\* Python's  s.startswith(sub)
str_startswith(s, sub) == Len(sub) <= Len(s) /\ SubSeq(s, 1, Len(sub)) = sub

\* tariff_list as it is now: agile_octopus carries the AM period last set
tariff_list_now(off_peak1) ==
    [k \in 1..Len(tariff_list) |->
        IF tariff_list[k].name = "Agile Octopus"
        THEN [tariff_list[k] EXCEPT !.off_peak1 = off_peak1] ELSE tariff_list[k]]

\* whether the text find picks the tariff t, if the start of the name had to match
tariff_matches_prefix(find, t) == str_startswith(lower(name_text(t.name)), lower(find))

\* whether the text find picks the tariff t
tariff_matches(find, t) == str_in(lower(find), lower(name_text(t.name)))

\* the tariffs that find identifies: find is one of the tariffs, a str, or
\* something else
tariff_found(find, list) ==
    IF find.is = "tariff"
    THEN (IF \E k \in 1..Len(list) : list[k] = find.tariff THEN <<find.tariff>> ELSE <<>>)
    ELSE IF find.is = "str"
    THEN SelectSeq(list, LAMBDA t : tariff_matches(find.chars, t))
    ELSE <<>>

\* the AM period of agile_octopus after set_agile_period got period
set_agile_period_off_peak1(off_peak1, p) ==
    IF p.is = "period"
    THEN [off_peak1 EXCEPT !.start = time_hours(p.start), !.end = time_hours(p.end)]
    ELSE off_peak1

\* what set_tariff makes of the tariffs found, skipping the check of the period
set_tariff_outcome_unchecked(found, p, update) ==
    IF Len(found) # 1 THEN "not found"
    ELSE IF update = 1 THEN "set" ELSE "no change"

\* what set_tariff makes of the tariffs found and, for Agile Octopus, of the
\* period that set_agile_period returned
set_tariff_outcome(found, p, update) ==
    IF Len(found) # 1 THEN "not found"
    ELSE IF found[1].name = "Agile Octopus" /\ p.is = "IndexError" THEN "IndexError"
    ELSE IF found[1].name = "Agile Octopus" /\ p.is = "None" THEN "no period"
    ELSE IF update = 1 THEN "set" ELSE "no change"

\* set tariff and charge time period based on pricing for Agile Octopus
set_tariff ==
    /\ util.fn = "set_tariff" /\ ~util.done
    /\ tariff_config' = store_settings(tariff_config, util.settings)
    /\ \E found \in {tariff_found(util.find, tariff_list_now(agile_off_peak1))} :
       \E agile \in {Len(found) = 1 /\ found[1].name = "Agile Octopus"} :
       \E r \in {IF agile THEN get_agile_period_result(tariff_config', prices)
                 ELSE [i |-> min_i, period |-> period]} :
       \E outcome \in {set_tariff_outcome(found, r.period, util.update)} :
          /\ period' = r.period
          /\ min_i' = r.i
          /\ agile_off_peak1' = IF agile THEN set_agile_period_off_peak1(agile_off_peak1, r.period)
                                ELSE agile_off_peak1
          /\ tariff' = IF outcome = "set"
                       THEN (IF agile THEN [found[1] EXCEPT !.off_peak1 = agile_off_peak1']
                             ELSE found[1])
                       ELSE IF tariff.name = "Agile Octopus"
                       THEN [tariff EXCEPT !.off_peak1 = agile_off_peak1']
                       ELSE tariff
          /\ util' = [util EXCEPT !.done = TRUE, !.ret = outcome,
                                  !.unknown = DOMAIN util.settings \ DOMAIN tariff_config]
    /\ UNCHANGED <<prices, agile_pc>>
    /\ UNCHANGED <<battery_capacity, charge_config, args, data, cn, calls, pc>>

\* no call of set_tariff or of a helper function
UtilIdle == util = [fn |-> "None", done |-> TRUE]

\* nothing is asked of charge_needed
ChargeIdle ==
    /\ battery_capacity = None
    /\ tariff = octopus_flux
    /\ charge_config = charge_config_loaded
    /\ args = no_args
    /\ data = snapshot(5000)
    /\ cn = [result |-> "None"]
    /\ calls = <<>>
    /\ pc = "done"

\* nothing is asked of get_agile_period
AgileIdle ==
    /\ tariff_config = [duration |-> I(3), start_at |-> I(23), end_by |-> I(8),
                        weighting |-> NoWeighting]
    /\ prices = <<>>
    /\ period = NonePeriod
    /\ min_i = -1
    /\ agile_pc = "done"
    /\ agile_off_peak1 = agile_octopus.off_peak1

\* the call starts with the module as loaded
ChargeCall ==
    /\ battery_capacity = None
    /\ charge_config = charge_config_loaded
    /\ cn = [result |-> "None"]
    /\ calls = <<>>
    /\ pc = "begin"
    /\ AgileIdle
    /\ UtilIdle

NextCharge ==
    \/ charge_needed_begin
    \/ charge_needed_window
    \/ charge_needed_battery
    \/ charge_needed_timelines
    \/ charge_needed_baseline
    \/ charge_needed_contingency
    \/ charge_needed_plan
    \/ charge_needed_add_charge
    \/ charge_needed_settings


\* ------------------------------------------------------------------------
\* Battery charging: calls that differ in the battery, the consumption,
\* the generation, the contingency and the time
\* ------------------------------------------------------------------------

ContingencySet == {0, 20, 25}

ResidualSet == {1500, 3000, 5000, 9500}

ConsumptionSet == {Q(24, 10), Q(48, 10), I(12)}

ClockSet == {<<21, 0>>, <<21, 30>>, <<1, 0>>}

\* a warm battery, a cold one that charges at 2A
TemperatureSet == {Q(39, 2), I(7)}

\* what sets the plan aside: a full charge every day, a battery too cold for
\* the derating table, a test charge
OverrideSet ==
    {[full_charge |-> "None", temperature |-> Q(39, 2), test_charge |-> None],
     [full_charge |-> "daily", temperature |-> Q(39, 2), test_charge |-> None],
     [full_charge |-> "None", temperature |-> I(0), test_charge |-> None],
     [full_charge |-> "None", temperature |-> Q(39, 2), test_charge |-> I(6)]}

PlanCall(residual, temperature, consumption, clock, contingency, forecast, force_charge, full_charge, test_charge) ==
    /\ data = [snapshot(residual) EXCEPT
                  !.hour = clock[1], !.minute = clock[2],
                  !.battery.temperature = temperature,
                  !.loads.value = consumption]
    /\ args = [no_args EXCEPT
                  !.forecast = forecast, !.force_charge = force_charge,
                  !.test_charge = test_charge, !.update_settings = 1,
                  !.settings = [contingency |-> contingency, full_charge |-> full_charge]
                               @@ plain_settings]

InitPlan ==
    /\ tariff \in {octopus_flux, intelligent_octopus}
    /\ \E residual \in ResidualSet, consumption \in ConsumptionSet :
          \/ \E temperature \in TemperatureSet, clock \in ClockSet,
                contingency \in ContingencySet, forecast \in {None, I(0), I(20)},
                force_charge \in {-1, 1} :
                PlanCall(residual, temperature, consumption, clock, contingency, forecast,
                         force_charge, "None", None)
          \/ \E o \in OverrideSet :
                PlanCall(residual, o.temperature, consumption, <<21, 0>>, 20, None, -1,
                         o.full_charge, o.test_charge)
    /\ ChargeCall

SpecPlan == InitPlan /\ [][NextCharge]_vars


\* ------------------------------------------------------------------------
\* Battery charging: calls that differ in the forecasts and the generation
\* history that are available
\* ------------------------------------------------------------------------

\* a forecast of 3kWh for tomorrow
b_forecast == [a_forecast EXCEPT !.kwh = I(3)]

\* no history, a history without generation, a history of 2kWh a day
GenerationSet == {None, I(0), I(2)}

\* 21:00 is a time to get a forecast with Octopus Flux, 20:00 is not
SourceClockSet == {20, 21}

SourceCall(hour, forecast, run_after, update_settings, generation, solcast_api_key, fsolcast, solar_arrays, fsolar) ==
    /\ data = [snapshot(1500) EXCEPT
                  !.hour = hour, !.generation = generation,
                  !.solcast_api_key = solcast_api_key, !.fsolcast = fsolcast,
                  !.solar_arrays = solar_arrays, !.fsolar = fsolar]
    /\ args = [no_args EXCEPT
                  !.forecast = forecast, !.run_after = run_after,
                  !.update_settings = update_settings]

InitSource ==
    /\ tariff = octopus_flux
    /\ \E hour \in SourceClockSet, forecast \in {None, I(5)}, run_after \in {0, 1},
          update_settings \in {0, 3}, generation \in GenerationSet,
          solcast_api_key \in BOOLEAN, fsolcast \in {NoForecast, a_forecast},
          solar_arrays \in BOOLEAN, fsolar \in {NoForecast, b_forecast} :
          SourceCall(hour, forecast, run_after, update_settings, generation,
                     solcast_api_key, fsolcast, solar_arrays, fsolar)
    /\ ChargeCall

SpecSource == InitSource /\ [][NextCharge]_vars


\* ------------------------------------------------------------------------
\* Battery charging: calls at each quarter of an hour of the day with the
\* charge periods of four tariffs
\* ------------------------------------------------------------------------

WindowTariffSet == {octopus_flux, octopus_cosy, bg_driver, custom_periods}

MinuteSet == {0, 15, 30, 45}

UpdateSet == {0, 1, 2, 3}

WindowCall(hour, minute, update_settings) ==
    /\ data = [snapshot(1500) EXCEPT !.hour = hour, !.minute = minute]
    /\ args = [no_args EXCEPT !.forecast = I(5), !.update_settings = update_settings]

InitWindow ==
    /\ tariff \in WindowTariffSet
    /\ \E hour \in 0..23, minute \in MinuteSet, update_settings \in UpdateSet :
          WindowCall(hour, minute, update_settings)
    /\ ChargeCall

SpecWindow == InitWindow /\ [][NextCharge]_vars


\* ------------------------------------------------------------------------
\* Price search: the settings and price feeds explored
\* ------------------------------------------------------------------------

\* most price points a feed holds in the model
MaxSlots == 5

\* prices in p/kWh: two of them less than a hundredth apart; no average of
\* up to 6 of them lies half way between two hundredths
PriceSet == {Q(15006, 1000), Q(15010, 1000), Q(15026, 1000)}

DurationSet == {None, Q(1, 2), Q(5, 4), I(2)}

StartAtSet == {I(23), Q(93, 4), Q(47, 2)}

EndBySet == {Q(1, 2), I(1), I(2)}

WeightingSet == {NoWeighting, first_hour}

InitAgile ==
    /\ tariff_config \in [duration : DurationSet, start_at : StartAtSet,
                          end_by : EndBySet, weighting : WeightingSet]
    /\ prices \in UNION {[1..n -> PriceSet] : n \in 0..MaxSlots}
    /\ period = NonePeriod
    /\ min_i = -1
    /\ agile_pc = "call"
    /\ agile_off_peak1 = agile_octopus.off_peak1
    /\ ChargeIdle
    /\ UtilIdle

NextAgile == get_agile_period

SpecAgile == InitAgile /\ [][NextAgile]_vars

\* ------------------------------------------------------------------------
\* Price search: the durations explored, with a feed that covers them
\* ------------------------------------------------------------------------

\* none, and every eighth of an hour from an hour below 0 to 8 hours
SpanDurationSet == {None} \cup {Q(k, 8) : k \in (-8)..64}

\* feeds of 18 and of 20 prices, with the lowest price in the middle
SpanFeedSet == {List([i \in 1..n |-> Q(15000 + (i - 7) * (i - 7), 1000)]) : n \in {18, 20}}

InitSpan ==
    /\ tariff_config \in [duration : SpanDurationSet, start_at : {I(23)}, end_by : {I(8)},
                          weighting : {NoWeighting}]
    /\ prices \in SpanFeedSet
    /\ period = NonePeriod
    /\ min_i = -1
    /\ agile_pc = "call"
    /\ agile_off_peak1 = agile_octopus.off_peak1
    /\ ChargeIdle
    /\ UtilIdle

SpecSpan == InitSpan /\ [][NextAgile]_vars

\* ------------------------------------------------------------------------
\* Properties of the price search
\* ------------------------------------------------------------------------

\* get_agile_period returned a period (not None, and no IndexError)
AgileFound == agile_pc = "done" /\ period.is = "period"

AgileCandidates == agile_start_i(tariff_config)..agile_end_i(tariff_config)

\* the exact and the rounded weighted average of candidate slot i
AgileMeanAt(i) ==
    agile_mean(agile_slice(prices, i, agile_span(tariff_config)), agile_weights(tariff_config))

AgileWavgAt(i) == Round2(AgileMeanAt(i))

\* offset of a time of day from 23:00, where the price feed starts, in hours
AgileOffset(t) == round_time(Sub(t, I(23)))

\* C9 as claimed: with uniform weights the returned window's weighted average
\* price is less than or equal to that of every candidate start slot, and the
\* earliest of the candidates with the lowest average is returned.
C9_LowestAverage ==
    (AgileFound /\ tariff_config.weighting = NoWeighting) =>
        \A i \in AgileCandidates :
            /\ Le(AgileMeanAt(min_i), AgileMeanAt(i))
            /\ (AgileMeanAt(i) = AgileMeanAt(min_i)
                    => min_i <= i)

\* C9 amended: with uniform weights the returned window's weighted average
\* rounded to 2 decimal places, which is the price returned, is less than or
\* equal to the rounded average of every candidate start slot, and the
\* earliest of the candidates with the lowest rounded average is returned.
C9_LowestRoundedAverage ==
    (AgileFound /\ tariff_config.weighting = NoWeighting) =>
        /\ min_i \in AgileCandidates
        /\ period.price = AgileWavgAt(min_i)
        /\ period.start = agile_times(Len(prices))[min_i + 1]
        /\ \A i \in AgileCandidates :
            /\ Le(period.price, AgileWavgAt(i))
            /\ (AgileWavgAt(i) = period.price => min_i <= i)

\* C9 witness: a uniform-weight search over several candidates returned a slot
\* that is neither the first nor the last, an equally cheap slot following it
C9_Witness ==
    /\ AgileFound
    /\ tariff_config.weighting = NoWeighting
    /\ agile_start_i(tariff_config) < min_i
    /\ min_i < agile_end_i(tariff_config)
    /\ AgileWavgAt(min_i + 1) = period.price

AgileFits ==
    LET so == AgileOffset(agile_start_at(tariff_config))
        eo == AgileOffset(agile_end_by(tariff_config))
    IN  /\ Mul(so, I(2))[2] = 1
        /\ Mul(eo, I(2))[2] = 1
        /\ Le(Add(so, agile_duration(tariff_config)), eo)

Baseline == IF "bat_timed_old" \in DOMAIN cn THEN cn.bat_timed_old
            ELSE IF "bat_timed" \in DOMAIN cn THEN cn.bat_timed
            ELSE <<>>

\* the time line of the pass with charge added, once there is one
Charged == IF "bat_timed_old" \in DOMAIN cn THEN cn.bat_timed ELSE <<>>

NotBelowZero(v) == Le(I(0), v)

NotAboveCapacity(v) == Le(v, cn.capacity)

\* C1 as stated: every value of the residual time line, in the pass without
\* charge and in the pass with charge added, is at least 0 and at most capacity
C1_ClampedBothPasses ==
    /\ \A k \in 1..Len(Baseline) : NotBelowZero(Baseline[k]) /\ NotAboveCapacity(Baseline[k])
    /\ \A k \in 1..Len(Charged) : NotBelowZero(Charged[k]) /\ NotAboveCapacity(Charged[k])

\* C1 amended: every value of both passes is at most capacity; every value of
\* the pass with charge added is at least 0; a value of the pass without
\* charge is at least 0 up to the hour when charging starts (time_to_next),
\* and may be below 0 after it
C1_ClampedWhereEmptyIsChecked ==
    /\ \A k \in 1..Len(Baseline) :
          /\ NotAboveCapacity(Baseline[k])
          /\ k - 1 <= cn.time_to_next => NotBelowZero(Baseline[k])
    /\ \A k \in 1..Len(Charged) : NotBelowZero(Charged[k]) /\ NotAboveCapacity(Charged[k])

\* both passes are done, the first went below 0 after time_to_next and was
\* held at capacity in some hour
C1_Witness ==
    /\ Len(Charged) > 0
    /\ \E k \in 1..Len(Baseline) : k - 1 > cn.time_to_next /\ Lt(Baseline[k], I(0))
    /\ \E k \in 1..Len(Charged) : Charged[k] = cn.capacity

\* ------------------------------------------------------------------------
\* Properties of the charge that is planned
\* ------------------------------------------------------------------------

\* the plan that the step from pc = "plan" leaves
NoChargePlan ==
    /\ cn'.charge_message = "no charge needed"
    /\ cn'.kwh_needed = I(0)
    /\ cn'.hours = I(0)
    /\ cn'.end1 = cn.start_at

\* C2 as stated: kwh_needed at or below min_kwh, no full charge and no test
\* charge give the plan with no charge, whatever the lowest residual is
C2_NoChargeAtOrBelowMinKwh ==
    [][(pc = "plan" /\ Le(cn.kwh_needed, charge_config.min_kwh)
        /\ cn.full_charge = "None" /\ args.test_charge = None) => NoChargePlan]_vars

\* C2 amended: the plan with no charge (kwh_needed 0, hours 0, end at the
\* start of the period) is made exactly when the lowest residual is above
\* reserve, kwh_needed is below min_kwh, and there is no full charge and no
\* test charge
C2_NoChargeBelowMinKwhAboveReserve ==
    [][pc = "plan" =>
         /\ (Lt(cn.reserve, cn.kwh_min) /\ Lt(cn.kwh_needed, charge_config.min_kwh)
             /\ cn.full_charge = "None" /\ args.test_charge = None) => NoChargePlan
         /\ cn'.charge_message = "no charge needed" =>
                (Lt(cn.reserve, cn.kwh_min) /\ Lt(cn.kwh_needed, charge_config.min_kwh)
                 /\ cn.full_charge = "None" /\ args.test_charge = None)]_vars

\* a plan with no charge was made for a kwh_needed above 0
C2_Witness ==
    /\ pc \in {"settings", "done"}
    /\ "charge_message" \in DOMAIN cn
    /\ cn.charge_message = "no charge needed"
    /\ cn.hours = I(0)
    /\ Lt(I(0), kwh_needed_of(cn.reserve, cn.kwh_contingency, cn.kwh_min))

\* the time it takes to add kwh at the rate in the hour when charging starts
TimeToAdd(kwh) ==
    Add(Div(kwh, Add(Mul(cn.charge_limit, cn.charge_loss),
                     cn.discharge_timed[py_pos(cn.discharge_timed, cn.time_to_next)])),
        IF Le(Mul(cn.capacity, Q(95, 100)), Add(cn.start_residual, kwh)) THEN Q(1, 6) ELSE I(0))

\* what is to be added when charge is added
KwhToAdd == IF args.test_charge = None THEN cn.kwh_needed ELSE args.test_charge

ChargeAdded == ~no_charge_needed(cn, charge_config, cn.kwh_needed, args.test_charge)

\* C3: when charge is added, a full charge that is requested or forced by
\* temperature, a time to add the charge that is longer than the charge
\* period (24 hours or more included), or a charge that takes the battery
\* above 105% of capacity, gives the whole period: hours = charge_time and
\* kwh_needed = capacity - start_residual
C3_FullChargeUsesWholePeriod ==
    [][(pc = "plan" /\ ChargeAdded /\ py_has(cn.discharge_timed, cn.time_to_next)
        /\ (\/ cn.full_charge # "None"
            \/ cn.force_charge = 2
            \/ Lt(cn.charge_time, TimeToAdd(KwhToAdd))
            \/ Lt(Mul(cn.capacity, Q(105, 100)), Add(cn.start_residual, KwhToAdd))))
       => (cn'.hours = cn.charge_time
           /\ cn'.kwh_needed = Sub(cn.capacity, cn.start_residual))]_vars

\* C4: after the first pass kwh_needed is reserve + contingency - kwh_min,
\* with reserve = capacity * min_soc / 100, contingency = consumption *
\* contingency % / 100 and kwh_min the lowest residual the first pass tracked,
\* which no value of its time line is below; 1kWh for capacity 10, min_soc 10,
\* 20% of 5kWh, minimum 1
C4_KwhNeeded ==
    /\ pc = "plan" =>
          /\ cn.kwh_needed = Sub(Add(Div(Mul(cn.capacity, cn.min_soc), I(100)),
                                     Div(Mul(cn.consumption, I(cn.contingency)), I(100))),
                                 cn.kwh_min)
          /\ \A k \in 1..Len(Baseline) : Le(cn.kwh_min, Baseline[k])
    /\ kwh_needed_of(Div(Mul(I(10), I(10)), I(100)), Div(Mul(I(5), I(20)), I(100)), I(1)) = I(1)

\* kwh_needed is worked out from a lowest residual below reserve and a
\* contingency above 0
C4_Witness ==
    /\ pc = "plan"
    /\ Lt(cn.kwh_min, cn.reserve)
    /\ Lt(I(0), cn.kwh_contingency)
    /\ Lt(cn.reserve, cn.kwh_needed)

\* the kwh_needed of line 2246 and the plan for a contingency %, all else
\* as it is when the plan is made
NeededFor(contingency) ==
    kwh_needed_of(cn.reserve, Div(Mul(cn.consumption, I(contingency)), I(100)), cn.kwh_min)

PlanFor(contingency) ==
    charge_plan(cn, charge_config, NeededFor(contingency), args.test_charge)

Planning == pc = "plan" /\ py_has(cn.discharge_timed, cn.time_to_next)

\* C5 as stated: a larger contingency % never gives a smaller kwh_needed in
\* the plan
C5_PlanMonotonic ==
    Planning =>
        \A c1, c2 \in ContingencySet :
            c1 < c2 => Le(PlanFor(c1).kwh_needed, PlanFor(c2).kwh_needed)

\* C5 amended: a larger contingency % never gives a smaller kwh_needed
\* before the plan adjusts it, and never a smaller kwh_needed in the plan
\* unless one of the two plans is a full charge
C5_NeededMonotonic ==
    Planning =>
        \A c1, c2 \in ContingencySet :
            c1 < c2 =>
                /\ Le(NeededFor(c1), NeededFor(c2))
                /\ (~PlanFor(c1).full /\ ~PlanFor(c2).full) =>
                       Le(PlanFor(c1).kwh_needed, PlanFor(c2).kwh_needed)

\* the plan adds more charge for a larger contingency %
C5_Witness ==
    /\ Planning
    /\ \E c1, c2 \in ContingencySet :
          /\ c1 < c2
          /\ ~PlanFor(c1).full /\ ~PlanFor(c2).full
          /\ Lt(I(0), PlanFor(c1).kwh_needed)
          /\ Lt(PlanFor(c1).kwh_needed, PlanFor(c2).kwh_needed)


\* ------------------------------------------------------------------------
\* Properties of the source of the expected generation
\* ------------------------------------------------------------------------

\* forecasts are asked for: no manual forecast, and it is a time to get one
ForecastAsked ==
    /\ args.forecast = None
    /\ (data.hour \in forecast_times_of(args, tariff) \/ args.run_after = 0)

SolcastObtained == ForecastAsked /\ data.solcast_api_key /\ data.fsolcast.has

SolarObtained == ForecastAsked /\ data.solar_arrays /\ data.fsolar.has

HistoryAvailable == data.generation # None /\ data.generation # I(0)

\* the expected generation was taken from the named source with this value
SourceIs(name, value) ==
    /\ "source" \in DOMAIN cn
    /\ cn.source = name
    /\ cn.expected = value

\* C6: the expected generation is the manual forecast if one is given, else
\* the Solcast forecast if one was obtained, else the forecast.solar
\* forecast if one was obtained, else the average of the generation history;
\* with none of these charge_needed returns None with no plan and no call to
\* change settings
C6_SourcePriority ==
    pc \notin {"begin", "window", "battery", "timelines"} =>
        IF args.forecast # None THEN SourceIs("manual", args.forecast)
        ELSE IF SolcastObtained THEN SourceIs("solcast", data.fsolcast.kwh)
        ELSE IF SolarObtained THEN SourceIs("solar", data.fsolar.kwh)
        ELSE IF HistoryAvailable THEN SourceIs("generation", data.generation)
        ELSE /\ pc = "done"
             /\ cn.result = "no generation"
             /\ {"source", "kwh_needed", "hours"} \cap DOMAIN cn = {}
             /\ calls = <<>>

\* Solcast is used although forecast.solar and the history are there too
C6_Witness ==
    /\ pc = "done"
    /\ cn.result = "complete"
    /\ SourceIs("solcast", data.fsolcast.kwh)
    /\ SolarObtained
    /\ HistoryAvailable


\* ------------------------------------------------------------------------
\* Properties of the charge periods
\* ------------------------------------------------------------------------

HourNow == Add(I(data.hour), Q(data.minute, 60))

\* a charge period of the tariff that is in use
IsPeriod(p) == p.start # p.end

\* the time since 15 minutes before the period started
SinceGuardStart(p) == Wrap24(Sub(HourNow, Sub(p.start, Q(1, 4))))

\* from 15 minutes before the period starts to 15 minutes after it ends
GuardLength(p) == Add(Wrap24(Sub(p.end, p.start)), Q(1, 2))

NearPeriod(p) == IsPeriod(p) /\ Le(SinceGuardStart(p), GuardLength(p))

NearPeriodNotAtEnd(p) == IsPeriod(p) /\ Lt(SinceGuardStart(p), GuardLength(p))

NothingChanged == calls = <<>> /\ cn.result = "complete"

FromNow(p) == Wrap24(Sub(p.start, HourNow))

FromHour(p) == Wrap24(Sub(p.start, I(data.hour)))

WindowChosen == "start_at" \in DOMAIN cn

ChosenIs(p) == cn.start_at = p.start /\ cn.end_by = p.end

\* C8 as stated: start_at and end_by are those of the PM period when it
\* starts sooner after the current time than the AM period, else those of
\* the AM period
C8_SoonerFromNow ==
    WindowChosen =>
        IF IsPeriod(tariff.off_peak2) /\ Lt(FromNow(tariff.off_peak2), FromNow(tariff.off_peak1))
        THEN ChosenIs(tariff.off_peak2)
        ELSE ChosenIs(tariff.off_peak1)

\* C8: start_at and end_by are those of the PM period when it starts after
\* 00:00 and sooner after the start of the current hour than the AM period,
\* else those of the AM period
C8_SoonerFromHour ==
    WindowChosen =>
        IF Lt(I(0), tariff.off_peak2.start)
           /\ Lt(FromHour(tariff.off_peak2), FromHour(tariff.off_peak1))
        THEN ChosenIs(tariff.off_peak2)
        ELSE ChosenIs(tariff.off_peak1)

\* the PM period is chosen part way through its first hour
C8_Witness ==
    /\ WindowChosen
    /\ cn.charge_pm
    /\ ChosenIs(tariff.off_peak2)
    /\ data.hour = int(tariff.off_peak2.start)
    /\ data.minute # 0


\* ------------------------------------------------------------------------
\* Properties of the span of the price search
\* ------------------------------------------------------------------------

\* the duration after the default of 3 hours and the limits of 1 and 6 hours
SpanDuration ==
    LET d == tariff_config.duration
    IN  IF d = None THEN I(3) ELSE IF Lt(I(6), d) THEN I(6) ELSE IF Lt(d, I(1)) THEN I(1) ELSE d

Ceiling(a) == -Floor(Neg(a))

\* C11 as stated: the span is an even number of half-hour slots, at least 2,
\* and 2 * ceil(duration in hours), the duration limited to 1..6 hours
C11_SpanEven ==
    AgileFound =>
        /\ period.span % 2 = 0
        /\ period.span >= 2
        /\ period.span = 2 * Ceiling(SpanDuration)

\* C11: the span is a whole number of half-hour slots from 2 to 12 that is
\* the duration, limited to 1..6 hours, rounded up to half an hour (a
\* hundredth of a slot or less is dropped): 2 * duration when that is whole,
\* else between 2 * duration - 0.01 and 2 * duration + 1
C11_SpanHalfHours ==
    AgileFound =>
        LET slots == Mul(SpanDuration, I(2))
        IN  /\ period.span \in 2..12
            /\ Le(Sub(slots, Q(1, 100)), I(period.span))
            /\ Lt(I(period.span), Add(slots, I(1)))
            /\ slots[2] = 1 => I(period.span) = slots

\* a period of an odd number of half-hour slots is returned for a duration
\* that is not a whole number of half hours
C11_Witness ==
    /\ AgileFound
    /\ period.span % 2 = 1
    /\ Mul(SpanDuration, I(2))[2] # 1

\* ------------------------------------------------------------------------
\* Tariff selection: the calls of set_tariff explored
\* ------------------------------------------------------------------------

\* what is passed as find: text, one of the tariffs, a tariff that is not in
\* tariff_list, or nothing
FindTextSet ==
    {<<>>,
     <<"f", "l", "u", "x">>,
     <<"F", "l", "u", "x">>,
     <<"O", "C", "T", "O", "P", "U", "S">>,
     <<"o", "c", "t", "o", "p", "u", "s", " ", "f">>,
     <<"o", "c", "t", "o", "p", "u", "s", " ", "g">>,
     <<"g", "o">>,
     <<"G", "o">>,
     <<"a", "g", "i", "l", "e">>,
     <<"A", "g", "i", "l", "e", " ", "O">>,
     <<"i", "n", "t", "e", "l", "l", "i", "g", "e", "n", "t">>,
     <<"c", "u", "s", "t">>,
     <<"b", "r", "i", "t", "i", "s", "h">>,
     <<"g", "a", "s">>,
     <<"c", "o", "s", "y">>,
     <<"x">>}

FindSet ==
    {Text(chars) : chars \in FindTextSet}
    \cup {[is |-> "tariff", tariff |-> t] : t \in {octopus_cosy, agile_octopus, [custom_periods EXCEPT !.name = "Mine"]}}
    \cup {[is |-> "None"]}

\* settings passed by keyword: keys of tariff_config and one that is not
TariffSettingsSet == {<<>>, [duration |-> I(1)], [end_by |-> I(2)], [end_at |-> I(2)]}

\* half-hour prices from 23:00: none, too few for the default settings, and
\* enough with the lowest prices in the middle or at the end
TariffFeedSet ==
    {<<>>} \cup SpanFeedSet
    \cup {List([i \in 1..n |-> Q(15000 + (i - 7) * (i - 7), 1000)]) : n \in {10, 14}}
    \cup {List([i \in 1..18 |-> Q(16000 - 10 * i, 1000)])}

\* set_tariff(find, update, **settings) is called
TariffCall(find, update, settings) ==
    util = [fn |-> "set_tariff", done |-> FALSE, find |-> find, update |-> update,
            settings |-> settings, ret |-> "None", unknown |-> {}]

InitTariff ==
    /\ \E find \in FindSet, update \in {0, 1}, settings \in TariffSettingsSet :
          TariffCall(find, update, settings)
    /\ tariff_config = [duration |-> I(3), start_at |-> I(23), end_by |-> I(8),
                        weighting |-> NoWeighting]
    /\ prices \in TariffFeedSet
    /\ period = NonePeriod
    /\ min_i = -1
    /\ agile_pc = "done"
    /\ agile_off_peak1 = agile_octopus.off_peak1
    /\ tariff \in {octopus_flux, agile_octopus}
    /\ battery_capacity = None
    /\ charge_config = charge_config_loaded
    /\ args = no_args
    /\ data = snapshot(5000)
    /\ cn = [result |-> "None"]
    /\ calls = <<>>
    /\ pc = "done"

NextTariff == set_tariff

SpecTariff == InitTariff /\ [][NextTariff]_vars

\* ------------------------------------------------------------------------
\* Properties of the tariff selection
\* ------------------------------------------------------------------------

\* set_tariff is about to run
TariffAsked == util.fn = "set_tariff" /\ ~util.done

\* find identifies Agile Octopus alone
AgileAsked ==
    LET found == tariff_found(util.find, tariff_list_now(agile_off_peak1))
    IN  Len(found) = 1 /\ found[1].name = "Agile Octopus"

\* fewer prices than the last candidate start plus the span, under the
\* settings that this call stores
TooFewPrices ==
    LET cfg == store_settings(tariff_config, util.settings)
    IN  Len(prices) < agile_end_i(cfg) + agile_span(cfg)

\* C12: when the feed holds fewer than end_i + span prices, the price search
\* returns no period, and set_tariff for Agile Octopus then leaves the AM
\* period of Agile Octopus and the tariff in use as they were
C12_TooFewPricesChangeNothing ==
    [][(TariffAsked /\ AgileAsked /\ TooFewPrices)
        => /\ period' = NonePeriod
           /\ util'.ret = "no period"
           /\ agile_off_peak1' = agile_off_peak1
           /\ tariff' = tariff]_vars

\* Agile Octopus was asked for with update = 1 over a feed that is not empty
\* but too short, Octopus Flux is still the tariff
C12_Witness ==
    /\ util.fn = "set_tariff" /\ util.done /\ util.ret = "no period" /\ util.update = 1
    /\ Len(prices) > 0
    /\ period = NonePeriod
    /\ tariff = octopus_flux
    /\ agile_off_peak1 = agile_octopus.off_peak1

\* ------------------------------------------------------------------------
\* Run time: the tariffs, clock times and clock changes explored
\* ------------------------------------------------------------------------

\* charge periods that start on the hour and on the half hour, with and
\* without a PM period
RunTimeTariffSet == {octopus_flux, octopus_cosy, octopus_go, intelligent_octopus}

\* clocks go forward (-1) or back (+1) tomorrow, or do not change
HourAdjustmentSet == {-1, 0, 1}

RunTimeCall(hour, minute, hour_adjustment) ==
    /\ data = [snapshot(1500) EXCEPT !.hour = hour, !.minute = minute,
                                     !.hour_adjustment = hour_adjustment,
                                     !.change_hour = IF hour_adjustment = 0 THEN 0
                                                     ELSE IF hour_adjustment > 0 THEN 26 ELSE 25]
    /\ args = [no_args EXCEPT !.forecast = I(5)]

InitRunTime ==
    /\ tariff \in RunTimeTariffSet
    /\ \E hour \in 0..23, minute \in {0, 30}, hour_adjustment \in HourAdjustmentSet :
          RunTimeCall(hour, minute, hour_adjustment)
    /\ ChargeCall

SpecRunTime == InitRunTime /\ [][NextCharge]_vars

\* ------------------------------------------------------------------------
\* Properties of the run time
\* ------------------------------------------------------------------------

\* C13: the time lines of charge and discharge, made entry by entry from the
\* generation and consumption time lines, have exactly run_time entries and
\* the run never fails for want of an entry, at every hour, for every start
\* of the charge period and with the clocks changing
C13_TimelinesCoverRunTime ==
    "run_time" \in DOMAIN cn =>
        /\ cn.result # "IndexError"
        /\ "charge_timed" \in DOMAIN cn =>
              /\ Len(cn.charge_timed) = cn.run_time
              /\ Len(cn.discharge_timed) = cn.run_time

\* ------------------------------------------------------------------------
\* Derating: the temperatures and charge currents explored
\* ------------------------------------------------------------------------

\* battery temperatures from -10C to 40C in steps of half a degree
DerateTemperatureSet == {Q(k, 2) : k \in (-20)..80}

\* the charge current before derating: below, between and above the entries
\* of the derating table
ChargeCurrentSet == {I(12), I(20), I(26), I(40)}

\* the derating step of charge_config (lines 2043-2060) is asked for
DeratedCall(temperature, charge_current, force_charge) ==
    util = [fn |-> "derated", done |-> FALSE,
            arg |-> [temperature |-> temperature, charge_current |-> charge_current,
                     force_charge |-> force_charge],
            ret |-> [charge_current |-> None, force_charge |-> -1]]

\* charge times are derated based on temperature
derated_step ==
    /\ util.fn = "derated" /\ ~util.done
    /\ util' = [util EXCEPT !.done = TRUE,
                            !.ret = derated(charge_config, util.arg.temperature,
                                            util.arg.charge_current, util.arg.force_charge)]
    /\ UNCHANGED <<agile_vars, charge_vars>>

InitDerated ==
    /\ \E temperature \in DerateTemperatureSet, charge_current \in ChargeCurrentSet,
          force_charge \in {0, 1} :
          DeratedCall(temperature, charge_current, force_charge)
    /\ AgileIdle
    /\ ChargeIdle

NextDerated == derated_step

SpecDerated == InitDerated /\ [][NextDerated]_vars

\* ------------------------------------------------------------------------
\* Properties of derating
\* ------------------------------------------------------------------------

\* the derating step has run
Derated == util.fn = "derated" /\ util.done

\* floor((derate_temp - temperature) / derate_step)
DerateFloor == Floor(Div(Sub(charge_config.derate_temp, util.arg.temperature), charge_config.derate_step))

\* the entry of the derating table at the floor index
DerateEntry == charge_config.derating[DerateFloor + 1]

\* the temperature is at or below derate_temp
AtOrBelowDerateTemp == Le(util.arg.temperature, charge_config.derate_temp)

\* C14 as stated: at or below derate_temp the charge current used is the
\* entry of the derating table at index floor((derate_temp - temperature) /
\* derate_step) when the index is inside the table (24A at derate_temp); beyond
\* the table the current is not derated and force_charge is 2; above the high
\* temperature threshold the current is unchanged
C14_TableEntryUsed ==
    Derated =>
        /\ (AtOrBelowDerateTemp /\ DerateFloor < Len(charge_config.derating))
              => util.ret.charge_current = DerateEntry
        /\ (AtOrBelowDerateTemp /\ util.arg.temperature = charge_config.derate_temp)
              => util.ret.charge_current = I(24)
        /\ (AtOrBelowDerateTemp /\ DerateFloor >= Len(charge_config.derating))
              => util.ret = [charge_current |-> util.arg.charge_current, force_charge |-> 2]
        /\ Lt(I(36), util.arg.temperature) => util.ret.charge_current = util.arg.charge_current

\* C14 as the code has it: at or below derate_temp, with the index
\* floor((derate_temp - temperature) / derate_step) inside the derating table,
\* the charge current used is the table entry at that index only when the
\* entry is lower than the current before derating, which is kept otherwise
\* (24A at derate_temp when the current before is above 24A), and force_charge
\* is as it was; beyond the table the current is kept and force_charge is 2;
\* above 36C both are unchanged
C14_LowerOfEntryAndCurrent ==
    Derated =>
        /\ (AtOrBelowDerateTemp /\ DerateFloor < Len(charge_config.derating))
              => util.ret = [charge_current |-> IF Lt(DerateEntry, util.arg.charge_current)
                                                THEN DerateEntry ELSE util.arg.charge_current,
                             force_charge |-> util.arg.force_charge]
        /\ (AtOrBelowDerateTemp /\ util.arg.temperature = charge_config.derate_temp
                                /\ Lt(I(24), util.arg.charge_current))
              => util.ret.charge_current = I(24)
        /\ (AtOrBelowDerateTemp /\ DerateFloor >= Len(charge_config.derating))
              => util.ret = [charge_current |-> util.arg.charge_current, force_charge |-> 2]
        /\ Lt(I(36), util.arg.temperature)
              => util.ret = [charge_current |-> util.arg.charge_current,
                             force_charge |-> util.arg.force_charge]

\* at 12.5C the index is 1, inside the table, and 40A is derated to 15A
C14_Witness ==
    /\ Derated
    /\ util.arg.temperature = Q(25, 2)
    /\ util.arg.charge_current = I(40)
    /\ DerateFloor = 1
    /\ util.ret.charge_current = I(15)

\* ------------------------------------------------------------------------
\* Time periods: the hours and periods explored
\* ------------------------------------------------------------------------

\* decimal hours from -25 to 50 in half hours
HourSet == {Q(k, 2) : k \in (-50)..100}

\* the start and the end of a period: missing, or a time of day
BoundSet == {None, I(0), I(4), Q(11, 2), I(22)}

\* periods with every pair of bounds, and no period at all
PeriodSet == {NoPeriod} \cup [start : BoundSet, end : BoundSet]

\* hour_in(h, period) is asked for
HourInCall(h, hours) ==
    util = [fn |-> "hour_in", done |-> FALSE, arg |-> [h |-> h, period |-> hours],
            ret |-> FALSE]

hour_in_step ==
    /\ util.fn = "hour_in" /\ ~util.done
    /\ util' = [util EXCEPT !.done = TRUE, !.ret = hour_in(util.arg.h, util.arg.period)]
    /\ UNCHANGED <<agile_vars, charge_vars>>

InitHourIn ==
    /\ \E h \in HourSet, hours \in PeriodSet : HourInCall(h, hours)
    /\ AgileIdle
    /\ ChargeIdle

NextHourIn == hour_in_step

SpecHourIn == InitHourIn /\ [][NextHourIn]_vars

\* ------------------------------------------------------------------------
\* Properties of time periods
\* ------------------------------------------------------------------------

\* hour_in has returned
HourInDone == util.fn = "hour_in" /\ util.done

\* the hour asked about, moved by whole days into [0, 24)
HourWrapped ==
    CHOOSE w \in {Add(util.arg.h, I(24 * k)) : k \in (-3)..3} : Le(I(0), w) /\ Lt(w, I(24))

\* the period asked about is there and so are both its bounds
PeriodBounded ==
    /\ util.arg.period # NoPeriod
    /\ util.arg.period.start # None
    /\ util.arg.period.end # None

\* C15: hour_in(h, period) is true exactly when start > end and the wrapped
\* hour is at or after start or before end, or start < end and the wrapped
\* hour is at or after start and before end; it is false when the period is
\* missing, a bound is missing or start = end; with 22 to 4 it is true for
\* 23 and 1 and false for 10
C15_HourIn ==
    HourInDone =>
        /\ util.ret <=>
              /\ PeriodBounded
              /\ \/ /\ Lt(util.arg.period.end, util.arg.period.start)
                    /\ Le(util.arg.period.start, HourWrapped) \/ Lt(HourWrapped, util.arg.period.end)
                 \/ /\ Lt(util.arg.period.start, util.arg.period.end)
                    /\ Le(util.arg.period.start, HourWrapped)
                    /\ Lt(HourWrapped, util.arg.period.end)
        /\ util.arg.period = [start |-> I(22), end |-> I(4)] =>
              /\ util.arg.h \in {I(23), I(1)} => util.ret
              /\ util.arg.h = I(10) => ~util.ret

\* 25:00 is inside 22:00 to 04:00, a period over midnight
C15_Witness ==
    /\ HourInDone
    /\ util.arg.h = I(25)
    /\ util.arg.period = [start |-> I(22), end |-> I(4)]
    /\ util.ret

\* ------------------------------------------------------------------------
\* Rounding of times: the decimal hours explored
\* ------------------------------------------------------------------------

\* decimal hours from -25 to 50 in eighths of an hour, and hours that are
\* a fraction of a minute away from a whole hour
RoundTimeSet ==
    {Q(k, 8) : k \in (-200)..400}
    \cup {Q(k, 200) : k \in {-4801, -1, 1, 199, 4601, 4799, 4801, 9599}}

\* round_time(h) is asked for
RoundTimeCall(h) == util = [fn |-> "round_time", done |-> FALSE, arg |-> h, ret |-> None]

round_time_step ==
    /\ util.fn = "round_time" /\ ~util.done
    /\ util' = [util EXCEPT !.done = TRUE, !.ret = round_time(util.arg)]
    /\ UNCHANGED <<agile_vars, charge_vars>>

InitRoundTime ==
    /\ \E h \in RoundTimeSet : RoundTimeCall(h)
    /\ AgileIdle
    /\ ChargeIdle

NextRoundTime == round_time_step

SpecRoundTime == InitRoundTime /\ [][NextRoundTime]_vars

\* ------------------------------------------------------------------------
\* Properties of the rounding of times
\* ------------------------------------------------------------------------

\* C16: for every decimal hour h, round_time(h) is at least 0, less than 24
\* and a whole number of minutes
C16_RoundTimeInDay ==
    (util.fn = "round_time" /\ util.done) =>
        /\ Le(I(0), util.ret)
        /\ Lt(util.ret, I(24))
        /\ Mul(util.ret, I(60)) = I(Floor(Mul(util.ret, I(60))))

\* ------------------------------------------------------------------------
\* Times as Python floats: IEEE 754 double precision
\* ------------------------------------------------------------------------

\* A whole number of any size is the sequence of its digits in base 1024,
\* lowest first.  A positive float is [m, e]: the value m * 2^e with m a
\* whole number of at most 53 bits; operations round to the nearest float,
\* ties to the even one.

RECURSIVE Pow2(_)
Pow2(n) == IF n = 0 THEN 1 ELSE 2 * Pow2(n - 1)

\* bits of a limb
RECURSIVE LimbBits(_)
LimbBits(v) == IF v = 0 THEN 0 ELSE 1 + LimbBits(v \div 2)

\* index of the highest limb that is not 0, 0 when there is none
RECURSIVE BigTop(_, _)
BigTop(x, i) == IF i = 0 THEN 0 ELSE IF x[i] # 0 THEN i ELSE BigTop(x, i - 1)

BigBits(x) ==
    LET j == BigTop(x, Len(x))
    IN  IF j = 0 THEN 0 ELSE 10 * (j - 1) + LimbBits(x[j])

\* x * c for a small c
RECURSIVE BigMulFrom(_, _, _, _, _)
BigMulFrom(x, c, i, carry, out) ==
    IF i > Len(x) THEN (IF carry = 0 THEN out ELSE Append(out, carry))
    ELSE LET t == x[i] * c + carry
         IN  BigMulFrom(x, c, i + 1, t \div 1024, Append(out, t % 1024))

BigMul(x, c) == BigMulFrom(x, c, 1, 0, <<>>)

\* x + y
RECURSIVE BigAddFrom(_, _, _, _, _)
BigAddFrom(x, y, i, carry, out) ==
    IF i > Len(x) /\ i > Len(y) THEN (IF carry = 0 THEN out ELSE Append(out, carry))
    ELSE LET t == (IF i <= Len(x) THEN x[i] ELSE 0) + (IF i <= Len(y) THEN y[i] ELSE 0) + carry
         IN  BigAddFrom(x, y, i + 1, t \div 1024, Append(out, t % 1024))

BigAdd(x, y) == BigAddFrom(x, y, 1, 0, <<>>)

\* x \div d and x % d for a small d, from the highest limb down
RECURSIVE BigDivFrom(_, _, _, _, _)
BigDivFrom(x, d, i, r, out) ==
    IF i = 0 THEN [q |-> out, r |-> r]
    ELSE LET t == r * 1024 + x[i]
         IN  BigDivFrom(x, d, i - 1, t % d, <<t \div d>> \o out)

BigDiv(x, d) == BigDivFrom(x, d, Len(x), 0, <<>>)

\* x * 2^s
BigShl(x, s) == [i \in 1..(s \div 10) |-> 0] \o BigMul(x, Pow2(s % 10))

\* x \div 2^s, and whether bits that are not 0 were dropped
BigShr(x, s) ==
    LET a == s \div 10
        d == BigDiv(SubSeq(x, a + 1, Len(x)), Pow2(s % 10))
    IN  [q |-> d.q, sticky |-> d.r # 0 \/ \E i \in 1..a : i <= Len(x) /\ x[i] # 0]

\* the value of a small x
RECURSIVE BigInt(_, _)
BigInt(x, i) == IF i > Len(x) THEN 0 ELSE x[i] + 1024 * BigInt(x, i + 1)

\* x * 2^e, with sticky telling of a fraction below x, rounded to 53 bits,
\* a tie to the even neighbour
Round53(x, e, sticky) ==
    LET t == BigBits(x) - 53
    IN  IF t <= 0 THEN [m |-> x, e |-> e]
        ELSE LET z    == BigShr(x, t - 1)
                 h    == BigDiv(z.q, 2)
                 odd  == Len(h.q) > 0 /\ h.q[1] % 2 = 1
                 up   == h.r = 1 /\ (sticky \/ z.sticky \/ odd)
             IN  [m |-> IF up THEN BigAdd(h.q, <<1>>) ELSE h.q, e |-> e + t]

\* float(n) / d for small whole numbers
float_div(n, d) ==
    LET x == BigDiv(BigShl(<<n>>, 64), d)
    IN  Round53(x.q, -64, x.r # 0)

\* float(n) + f
float_add(n, f) == Round53(BigAdd(BigShl(<<n>>, -f.e), f.m), f.e, FALSE)

\* f * c for a small whole number c
float_mul(f, c) == Round53(BigMul(f.m, c), f.e, FALSE)

\* int(f) for f >= 0
float_int(f) == IF f.e >= 0 THEN BigInt(f.m, 1) * Pow2(f.e) ELSE BigInt(BigShr(f.m, -f.e).q, 1)

time_hours_float(t) == float_add(t[1], float_div(t[2], 60))

hours_time_float(h) == <<float_int(h), float_int(float_mul(h, 60)) % 60>>

\* ------------------------------------------------------------------------
\* Times as text and back: the times explored
\* ------------------------------------------------------------------------

\* no float yet
NoFloat == [m |-> <<>>, e |-> 0]

\* time_hours(s) is asked for, s the text HH:MM as the pair <<HH, MM>>
TimeHoursCall(s) ==
    util = [fn |-> "time_hours", done |-> FALSE, s |-> s, h |-> NoFloat, ret |-> <<>>]

\* convert time string HH:MM to decimal hours, then ask for hours_time of it
time_hours_step ==
    /\ util.fn = "time_hours" /\ ~util.done
    /\ util' = [util EXCEPT !.fn = "hours_time", !.h = time_hours_float(util.s)]
    /\ UNCHANGED <<agile_vars, charge_vars>>

\* convert decimal hours to time string HH:MM
hours_time_step ==
    /\ util.fn = "hours_time" /\ ~util.done
    /\ util' = [util EXCEPT !.done = TRUE, !.ret = hours_time_float(util.h)]
    /\ UNCHANGED <<agile_vars, charge_vars>>

InitRoundTrip ==
    /\ \E s \in (0..23) \X (0..59) : TimeHoursCall(s)
    /\ AgileIdle
    /\ ChargeIdle

NextRoundTrip == time_hours_step \/ hours_time_step

SpecRoundTrip == InitRoundTrip /\ [][NextRoundTrip]_vars

\* ------------------------------------------------------------------------
\* Properties of times as text and back
\* ------------------------------------------------------------------------

\* C17: for every text HH:MM from 00:00 to 23:59, hours_time(time_hours(s))
\* is s again
C17_RoundTrip == (util.fn = "hours_time" /\ util.done) => util.ret = util.s

\* ------------------------------------------------------------------------
\* Properties of the tariff selection by text
\* ------------------------------------------------------------------------

\* set_tariff is about to run with a text for find and update = 1
TextAsked == TariffAsked /\ util.find.is = "str" /\ util.update = 1

\* the text sub occurs in the text s, upper and lower case taken as equal
OccursIn(sub, s) ==
    \E i \in 0..Len(s) : \E j \in i..Len(s) : lower(SubSeq(s, i + 1, j)) = lower(sub)

\* the text sub is how the text s begins, upper and lower case taken as equal
BeginsWith(sub, s) == Len(sub) <= Len(s) /\ lower(SubSeq(s, 1, Len(sub))) = lower(sub)

\* positions in tariff_list of the tariffs with find somewhere in the name
FoundInside == {k \in 1..Len(tariff_list) : OccursIn(util.find.chars, name_text(tariff_list[k].name))}

\* positions in tariff_list of the tariffs with find at the start of the name
FoundAtStart == {k \in 1..Len(tariff_list) : BeginsWith(util.find.chars, name_text(tariff_list[k].name))}

\* a tariff other than Agile Octopus, or Agile Octopus with a price period
\* found under the settings of this call
PeriodFound(k) ==
    tariff_list[k].name = "Agile Octopus"
        => get_agile_period_result(store_settings(tariff_config, util.settings), prices).period.is = "period"

\* the tariff at position k of tariff_list is the tariff in use after the step
Selected(k) == tariff' = tariff_list_now(agile_off_peak1')[k]

\* C18 as stated: set_tariff with a text selects a tariff exactly when the
\* text is, but for case, the start of the name of exactly one tariff (for
\* Agile Octopus with a price period found); otherwise the tariff in use is
\* left as it was
C18_UniquePrefixSelects ==
    [][TextAsked =>
          IF \E k \in FoundAtStart : FoundAtStart = {k} /\ PeriodFound(k)
          THEN \A k \in FoundAtStart : Selected(k) /\ util'.ret = "set"
          ELSE tariff' = tariff /\ util'.ret # "set"]_vars

\* C18 as the code has it: set_tariff with a text and update = 1 selects a
\* tariff exactly when the text occurs, but for case, anywhere in the name of
\* exactly one tariff (for Agile Octopus with a price period found);
\* otherwise the tariff in use is left as it was
C18_UniqueSubstringSelects ==
    [][TextAsked =>
          IF \E k \in FoundInside : FoundInside = {k} /\ PeriodFound(k)
          THEN \A k \in FoundInside : Selected(k) /\ util'.ret = "set"
          ELSE tariff' = tariff /\ util'.ret # "set"]_vars

\* "go" is not how any name begins and selected Octopus Go
C18_Witness ==
    /\ util.fn = "set_tariff" /\ util.done /\ util.ret = "set"
    /\ util.find = Text(<<"g", "o">>)
    /\ tariff = octopus_go

\* ------------------------------------------------------------------------
\* One call of charge_needed after another
\* ------------------------------------------------------------------------

\* charge_needed has returned to its caller, who keeps the parameters, what it worked
\* out and the requests it made, and calls it with the next parameters: the module
\* is not loaded again, charge_config, battery_capacity and tariff stay
charge_needed_return ==
    /\ pc = "done"
    /\ util.fn = "charge_needed" /\ ~util.done
    /\ util' = [util EXCEPT !.plans = Append(@, [args |-> args, cn |-> cn, calls |-> calls]),
                            !.queue = IF @ = <<>> THEN @ ELSE Tail(@),
                            !.done = (util.queue = <<>>)]
    /\ IF util.queue = <<>> THEN UNCHANGED <<args, cn, calls, pc>>
       ELSE /\ args' = Head(util.queue)
            /\ cn' = [result |-> "None"]
            /\ calls' = <<>>
            /\ pc' = "begin"
    /\ UNCHANGED <<battery_capacity, tariff, charge_config, data>>
    /\ UNCHANGED agile_vars

\* the settings given with a call: none but the plain ones, a contingency,
\* the contingency as loaded, a battery capacity
AgainSettingsSet ==
    {plain_settings, [contingency |-> 50] @@ plain_settings,
     [contingency |-> 20] @@ plain_settings, [capacity |-> I(8)] @@ plain_settings}

\* the parameters of a call with these settings
AgainArgs(settings) == [no_args EXCEPT !.update_settings = 1, !.settings = settings]

\* a call, another call, and the first call once more, with the same data
InitAgain ==
    /\ \E first \in AgainSettingsSet, second \in AgainSettingsSet :
          /\ args = AgainArgs(first)
          /\ util = [fn |-> "charge_needed", done |-> FALSE,
                     queue |-> <<AgainArgs(second), AgainArgs(first)>>, plans |-> <<>>]
    /\ \E residual \in {1500, 3000} : data = snapshot(residual)
    /\ tariff = octopus_flux
    /\ battery_capacity = None
    /\ charge_config = charge_config_loaded
    /\ cn = [result |-> "None"]
    /\ calls = <<>>
    /\ pc = "begin"
    /\ AgileIdle

NextAgain == NextCharge \/ charge_needed_return

SpecAgain == InitAgain /\ [][NextAgain]_vars

\* ------------------------------------------------------------------------
\* Properties of one call after another
\* ------------------------------------------------------------------------

\* the three calls have returned
AllReturned == util.fn = "charge_needed" /\ Len(util.plans) = 3

\* the call in between gave no setting that the first and last call did not give
NothingLeftOver == DOMAIN util.plans[2].args.settings \subseteq DOMAIN util.plans[1].args.settings

\* C19 as stated: two calls of charge_needed with the same parameters and the
\* same data work out the same plan and make the same requests whatever was
\* called in between, and the calls leave charge_config, battery_capacity and
\* tariff as they found them
C19_Stateless ==
    /\ AllReturned => util.plans[3] = util.plans[1]
    /\ charge_config = charge_config_loaded
    /\ battery_capacity = None
    /\ tariff = octopus_flux

\* a step of charge_needed leaves charge_config alone but for the first, which
\* puts each setting given with the call in the place of the value of its key
SettingsStored ==
    IF pc = "begin"
    THEN \A k \in DOMAIN charge_config :
            charge_config'[k] = IF k \in DOMAIN args.settings THEN args.settings[k]
                                ELSE charge_config[k]
    ELSE charge_config' = charge_config

\* a step of charge_needed leaves battery_capacity alone, but sets it to the
\* capacity of charge_config when it has none
CapacityKept ==
    battery_capacity' = battery_capacity
    \/ (battery_capacity = None /\ battery_capacity' = charge_config.capacity)

\* C19 as the code has it: a call stores the settings it is given in the
\* module-wide charge_config, where they stay for the calls after it, sets the
\* module-wide battery_capacity when there is none, and leaves the tariff; two
\* calls with the same parameters and data work out the same plan and make
\* the same requests when the call in between gave no setting that they did
\* not give themselves
C19_SettingsStay ==
    /\ [][SettingsStored /\ CapacityKept /\ tariff' = tariff]_vars
    /\ []((AllReturned /\ NothingLeftOver) => util.plans[3] = util.plans[1])

\* after a call with a contingency of 50 the same call as before works out
\* another plan
C19_Witness ==
    /\ AllReturned
    /\ util.plans[1].cn.result = "complete"
    /\ util.plans[3] # util.plans[1]
    /\ charge_config.contingency = 50

\* ------------------------------------------------------------------------
\* Settings that are not configuration keys: the calls explored
\* ------------------------------------------------------------------------

\* settings given to charge_needed: keys of charge_config only, and with a
\* key that charge_config does not have
KeysSettingsSet ==
    {plain_settings, [contingency |-> 25] @@ plain_settings,
     [contigency |-> 25] @@ plain_settings,
     [contingency |-> 25, min_charge |-> I(1)] @@ plain_settings}

\* charge_needed is called with these settings
KeysCall(residual, update_settings, settings) ==
    /\ data = snapshot(residual)
    /\ args = [no_args EXCEPT !.update_settings = update_settings, !.settings = settings]

\* a call of set_tariff, or a call of charge_needed
InitKeys ==
    \/ InitTariff
    \/ /\ \E residual \in ResidualSet, update_settings \in UpdateSet, settings \in KeysSettingsSet :
             KeysCall(residual, update_settings, settings)
       /\ tariff = octopus_flux
       /\ ChargeCall

NextKeys == NextCharge \/ set_tariff

SpecKeys == InitKeys /\ [][NextKeys]_vars

\* ------------------------------------------------------------------------
\* Properties of settings that are not configuration keys
\* ------------------------------------------------------------------------

\* C20: a call of set_tariff or of charge_needed with a setting that is not a
\* configuration key ends there: no configuration value is changed, no
\* tariff is selected, nothing is worked out and no request to change the
\* settings of the inverter is made
C20_UnknownKeyAborts ==
    [][/\ (TariffAsked /\ ~(DOMAIN util.settings \subseteq DOMAIN tariff_config))
             => /\ tariff_config' = tariff_config
                /\ tariff' = tariff
                /\ agile_off_peak1' = agile_off_peak1
                /\ util'.ret # "set"
       /\ (pc = "begin" /\ ~(DOMAIN args.settings \subseteq DOMAIN charge_config))
             => /\ charge_config' = charge_config
                /\ calls' = <<>>
                /\ pc' = "done"]_vars

\* ------------------------------------------------------------------------
\* Timed work mode: the tariffs, times and work modes explored
\* ------------------------------------------------------------------------

\* Octopus Flux with a Backup period inside its Feedin period
flux_with_backup ==
    [octopus_flux EXCEPT !.name = "Flux with Backup",
                         !.modes["Backup"] = [start |-> I(17), end |-> I(19)]]

\* tariffs with one timed work mode, with two that overlap, and with none
ModeTariffSet == {octopus_flux, flux_with_backup, octopus_cosy}

\* hours inside and outside the periods of the work modes
ModeHourSet == {3, 6, 10, 16, 18, 20, 23}

\* charge_needed is called at hour:00 with the inverter in work_mode
ModeCall(residual, hour, update_settings, work_mode) ==
    /\ data = [snapshot(residual) EXCEPT !.hour = hour, !.work_mode = work_mode]
    /\ args = [no_args EXCEPT !.forecast = I(5), !.update_settings = update_settings]

InitMode ==
    /\ tariff \in ModeTariffSet
    /\ \E residual \in {1500, 9500}, hour \in ModeHourSet, update_settings \in UpdateSet,
          work_mode \in {"SelfUse", "Feedin", "Backup"} :
          ModeCall(residual, hour, update_settings, work_mode)
    /\ ChargeCall

SpecMode == InitMode /\ [][NextCharge]_vars

\* ------------------------------------------------------------------------
\* Properties of the timed work mode
\* ------------------------------------------------------------------------

\* charge_needed has gone through its last step
SettingsDone == pc = "done" /\ cn.result = "complete"

\* positions in work_modes of the modes whose period in the tariff has the time now
ModesNow == {k \in 1..Len(work_modes) : hour_in(cn.hour_now, tariff.modes[work_modes[k]])}

\* the last of them
LastModeNow == CHOOSE k \in ModesNow : \A j \in ModesNow : j <= k

\* the work mode to change to
TargetMode == IF ModesNow = {} THEN tariff.default_mode ELSE work_modes[LastModeNow]

\* the SoC it requires
RequiredSoc ==
    IF ModesNow = {} THEN 0
    ELSE LET p == tariff.modes[work_modes[LastModeNow]]
         IN  IF "min_soc" \in DOMAIN p THEN p.min_soc ELSE 0

\* the calls of set_work_mode made
ModeCalls == SelectSeq(calls, LAMBDA c : c.fn = "set_work_mode")

\* a change of work mode is asked for, and was not taken back since
ModeUpdateAsked ==
    cn.update_settings \in {2, 3} /\ tariff.default_mode # "None" /\ data.work_mode # "None"

\* C21: when a work mode update is requested, the target is the last mode in
\* the order of work_modes whose period in the tariff has the time now, the
\* default mode of the tariff when there is none, and set_work_mode is called,
\* once and with the target, only if the target is not the work mode now and
\* the SoC now is at least the min_soc of the target's period, 0 if it has none
C21_WorkModeTarget ==
    SettingsDone =>
        IF ModeUpdateAsked /\ TargetMode # data.work_mode /\ Le(I(RequiredSoc), cn.current_soc)
        THEN Len(ModeCalls) = 1 /\ ModeCalls[1].mode = TargetMode
        ELSE ModeCalls = <<>>

\* at 18:00 the Feedin and the Backup period both have the time now: with a
\* SoC of 15%, below the 75% of Feedin, the work mode is changed to Backup
C21_Witness ==
    /\ SettingsDone
    /\ tariff = flux_with_backup
    /\ data.hour = 18
    /\ Lt(cn.current_soc, I(75))
    /\ Len(ModeCalls) = 1
    /\ ModeCalls[1].mode = "Backup"

\* ------------------------------------------------------------------------
\* Battery at reserve: the batteries, times and forecasts explored
\* ------------------------------------------------------------------------

\* residual in Wh of a 10kWh battery: below, at and above a reserve of 10%
DrainResidualSet == {900, 1000, 1200, 3000}

\* hours with up to 12 hours to go to the AM charge period
DrainHourSet == {6, 14, 16, 20, 23}

\* charge_needed is called at hour:30, with Min SoC from the inverter (10%)
\* or given with the call
DrainCall(residual, hour, forecast, min_soc) ==
    /\ data = [snapshot(residual) EXCEPT !.hour = hour, !.minute = 30]
    /\ args = [no_args EXCEPT !.forecast = forecast,
                              !.settings = [min_soc |-> min_soc] @@ plain_settings]

InitDrain ==
    /\ tariff \in {octopus_flux, octopus_cosy}
    /\ \E residual \in DrainResidualSet, hour \in DrainHourSet, forecast \in {I(0), I(5)},
          min_soc \in {None, I(5), I(20)} :
          DrainCall(residual, hour, forecast, min_soc)
    /\ ChargeCall

SpecDrain == InitDrain /\ [][NextCharge]_vars

\* ------------------------------------------------------------------------
\* Properties of the battery at reserve
\* ------------------------------------------------------------------------

\* the pass without charge added has just been made
BaselineMade == pc = "contingency"

\* what each hour adds to the residual
NetKwh == kwh_timed_of(cn.charge_timed, cn.discharge_timed, cn.charge_loss)

\* the residual going into hour k (k from 1): where the hour before left it
ResidualInto(k) ==
    IF k = 1 THEN kwh_start(cn, NetKwh) ELSE Add(cn.bat_timed[k - 1], NetKwh[k - 1])

\* hour k is held at the reserve: the residual is at or below reserve and the
\* hour is not after the hour when charging starts
Pinned(k) == Le(ResidualInto(k), cn.reserve) /\ k - 1 <= cn.time_to_next

\* 6% of the capacity
SixPercent == Div(Mul(cn.capacity, I(6)), I(100))

\* the floor one hour on from floor, back at reserve when it would be below 6%
NextFloor(floor) ==
    LET f == Sub(floor, Div(cn.bms_power, I(1000)))
    IN  IF Lt(f, SixPercent) THEN cn.reserve ELSE f

\* the drain floors of hours 1 to n: reserve in an hour that follows one that
\* is not pinned, one step on in an hour that follows a pinned one
RECURSIVE DrainFloors(_, _)
DrainFloors(n, floors) ==
    IF Len(floors) >= n THEN floors
    ELSE LET k == Len(floors) + 1
         IN  DrainFloors(n, Append(floors, IF k = 1 \/ ~Pinned(k - 1) THEN cn.reserve
                                           ELSE NextFloor(floors[k - 1])))

\* C22: in the pass without charge added, the residual recorded for a pinned
\* hour is the drain floor: reserve in the first hour of a run of pinned
\* hours, bms_power/1000 lower in each hour that follows, and reserve again
\* when the floor would be below 6% of capacity; so it is never above reserve
\* and never below the lower of reserve and 6% of capacity, and an hour that
\* is not pinned puts the floor back to reserve
C22_DrainFloor ==
    BaselineMade =>
        \E floors \in {DrainFloors(Len(cn.bat_timed), <<>>)} :
            \A k \in 1..Len(cn.bat_timed) :
                Pinned(k) =>
                    /\ cn.bat_timed[k] = floors[k]
                    /\ Le(cn.bat_timed[k], cn.reserve)
                    /\ Le(IF Lt(cn.reserve, SixPercent) THEN cn.reserve ELSE SixPercent,
                          cn.bat_timed[k])

\* ten hours pinned in a row, from 1kWh down to 0.6kWh in steps of 0.05kWh,
\* and back at 1kWh in the tenth
C22_Witness ==
    /\ BaselineMade
    /\ Len(cn.bat_timed) >= 10
    /\ \A k \in 1..10 : Pinned(k)
    /\ cn.bat_timed[1] = I(1)
    /\ cn.bat_timed[9] = Q(6, 10)
    /\ cn.bat_timed[10] = I(1)

\* ------------------------------------------------------------------------
\* Properties of the lowest residual
\* ------------------------------------------------------------------------

\* the lowest residual recorded in the pass without charge added
LowestRecorded ==
    CHOOSE v \in {cn.bat_timed[k] : k \in 1..Len(cn.bat_timed)} :
        \A k \in 1..Len(cn.bat_timed) : Le(v, cn.bat_timed[k])

\* the first hour (from 0) where it is recorded
FirstLowest ==
    CHOOSE i \in 0..(Len(cn.bat_timed) - 1) :
        /\ cn.bat_timed[i + 1] = LowestRecorded
        /\ \A j \in 0..(i - 1) : cn.bat_timed[j + 1] # LowestRecorded

\* C23: after the pass without charge added, kwh_min is the lowest residual
\* recorded in bat_timed and min_hour is base_hour plus the first index where
\* it is recorded, for every residual to start with
C23_LowestRecorded ==
    BaselineMade =>
        /\ cn.kwh_min = LowestRecorded
        /\ cn.min_hour = cn.base_hour + FirstLowest

\* ------------------------------------------------------------------------
\* Properties of the two passes over the same time lines
\* ------------------------------------------------------------------------

\* the residual time line that the pass made after charge is added (lines
\* 2308-2322) records for the time lines of the pass without charge
SecondPass == residual_timed(cn, cn.charge_timed, cn.discharge_timed, cn.run_time).bat_timed

\* v, or the capacity if v is above it
AtMostCapacity(v) == IF Lt(cn.capacity, v) THEN cn.capacity ELSE v

\* the lower of reserve and 6% of the capacity
LowestPinned == IF Lt(cn.reserve, SixPercent) THEN cn.reserve ELSE SixPercent

\* C24 as stated: with the same time lines, residual to start with, reserve,
\* capacity and BMS drain, the pass made after charge is added records the
\* same residual time line as the pass without charge
C24_SamePasses == BaselineMade => SecondPass = cn.bat_timed

\* C24 as the code has it: with the same time lines the two passes record the
\* same residual up to the hour when charging starts (time_to_next); after
\* that hour the pass without charge holds nothing at the reserve, it records
\* the residual as the hour before left it, at most the capacity, while the
\* pass made after charge is added never records less than the lower of
\* reserve and 6% of the capacity
C24_SameUntilChargeStarts ==
    BaselineMade =>
        \E second \in {SecondPass} :
            /\ Len(second) = Len(cn.bat_timed)
            /\ \A k \in 1..Len(cn.bat_timed) :
                  /\ k - 1 <= cn.time_to_next => second[k] = cn.bat_timed[k]
                  /\ k - 1 > cn.time_to_next => cn.bat_timed[k] = AtMostCapacity(ResidualInto(k))
                  /\ Le(LowestPinned, second[k])

\* after the hour when charging starts the pass without charge goes below the
\* reserve and the other pass does not
C24_Witness ==
    /\ BaselineMade
    /\ \E k \in 1..Len(cn.bat_timed) :
          /\ k - 1 > cn.time_to_next
          /\ Lt(cn.bat_timed[k], LowestPinned)
          /\ Le(LowestPinned, SecondPass[k])

\* ------------------------------------------------------------------------
\* Charge added hour by hour
\* ------------------------------------------------------------------------

FractionTariffSet == {octopus_flux, octopus_go, agile_octopus, octopus_cosy}

\* the hours of the day when charge_needed is run
FractionHourSet == {0, 3, 12, 21, 23}

\* the charge to test with, kWh
TestChargeSet == {None, Q(1, 2), I(1), I(2), I(3), I(5)}

\* a run at half past the hour, the clocks going forward tomorrow or not
FractionCall(residual, hour, hour_adjustment, test_charge) ==
    /\ data = [snapshot(residual) EXCEPT !.hour = hour, !.minute = 30,
                                         !.hour_adjustment = hour_adjustment,
                                         !.change_hour = IF hour_adjustment = 0 THEN 0 ELSE 25]
    /\ args = [no_args EXCEPT !.forecast = I(5), !.test_charge = test_charge]

InitFraction ==
    /\ tariff \in FractionTariffSet
    /\ \E residual \in {1500, 5000}, hour \in FractionHourSet, hour_adjustment \in {-1, 0},
          test_charge \in TestChargeSet :
          FractionCall(residual, hour, hour_adjustment, test_charge)
    /\ ChargeCall

SpecFraction == InitFraction /\ [][NextCharge]_vars

\* ------------------------------------------------------------------------
\* Properties of the charge added hour by hour
\* ------------------------------------------------------------------------

\* charge has been added to the time lines
Injected == "charge_timed_old" \in DOMAIN cn

\* the hours that charge is added to (line 2282)
InjectedHours == cn.time_to_next .. (int(Add(Add(I(cn.time_to_next), cn.hours), I(2))) - 1)

\* when charging ends, in hours from the base hour
EndTimed == Add(cn.time_to_start, cn.hours)

\* the part of the hour from i to i + 1 that is between start and end
Overlap(start, end, i) ==
    LET from == IF Lt(start, I(i)) THEN I(i) ELSE start
        to   == IF Lt(I(i + 1), end) THEN I(i + 1) ELSE end
    IN  IF Lt(from, to) THEN Sub(to, from) ELSE I(0)

\* the part of hour i spent charging, as the code works it out
Fraction(i) == charge_fraction(cn.time_to_start, EndTimed, i)

RECURSIVE SumFractions(_, _)
SumFractions(i, n) == IF i > n THEN I(0) ELSE Add(Fraction(i), SumFractions(i + 1, n))

\* every part of an hour is the overlap with the charge time and is from 0 to 1
FractionsOverlap ==
    \A i \in InjectedHours :
        /\ Fraction(i) = Overlap(cn.time_to_start, EndTimed, i)
        /\ Le(I(0), Fraction(i)) /\ Le(Fraction(i), I(1))

\* charge is raised by charge_limit * t, to charge_limit at most, and
\* discharge is scaled by 1 - t, in every hour that charge is added to
ChargeRaised ==
    \A i \in InjectedHours :
        LET k  == py_pos(cn.charge_timed, i)
            up == Add(cn.charge_timed_old[k], Mul(cn.charge_limit, Fraction(i)))
        IN  /\ cn.charge_timed[k] = IF Lt(up, cn.charge_limit) THEN up ELSE cn.charge_limit
            /\ Le(cn.charge_timed[k], cn.charge_limit)
            /\ cn.discharge_timed[k] = Mul(cn.discharge_timed_old[k], Sub(I(1), Fraction(i)))

\* C25 as stated: the parts of the hours are the overlaps with the charge
\* time, each from 0 to 1, and add up to exactly hours; charge is raised by
\* charge_limit * t but never above charge_limit and discharge is scaled by
\* 1 - t
C25_FractionsSumToHours ==
    Injected =>
        /\ FractionsOverlap
        /\ SumFractions(cn.time_to_next, cn.time_to_next + Cardinality(InjectedHours) - 1) = cn.hours
        /\ ChargeRaised

\* ------------------------------------------------------------------------
\* Consumption by hour
\* ------------------------------------------------------------------------

\* consumption by hour with nothing in any hour
zero_profile == List([h \in 1..24 |-> I(0)])

\* consumption by hour with an evening peak
evening_profile == List([h \in 1..24 |-> IF h \in 18..22 THEN I(120) ELSE I(30)])

ProfileSet == {no_profile, zero_profile, evening_profile}

\* a run with the daily consumption and the consumption by hour reported
ProfileCall(residual, hour, update_settings, consumption, profile) ==
    /\ data = [snapshot(residual) EXCEPT !.hour = hour,
                                         !.loads = [value |-> consumption, profile |-> profile]]
    /\ args = [no_args EXCEPT !.forecast = I(5), !.update_settings = update_settings]

InitProfile ==
    /\ tariff \in {octopus_flux, octopus_cosy}
    /\ \E residual \in {1500, 9500}, hour \in {10, 21}, update_settings \in UpdateSet,
          consumption \in {None, Q(24, 10), I(12)}, profile \in ProfileSet :
          ProfileCall(residual, hour, update_settings, consumption, profile)
    /\ ChargeCall

SpecProfile == InitProfile /\ [][NextCharge]_vars

\* ------------------------------------------------------------------------
\* Properties of the consumption by hour
\* ------------------------------------------------------------------------

\* there is consumption in the day and none in any hour of the profile
ZeroProfile == data.loads.value # None /\ SumSeq(data.loads.profile) = I(0)

\* C26: when the consumption by hour sums to zero the run ends with a
\* reported outcome, without a plan and without a settings update, and not
\* with a division by zero
C26_ZeroProfileReported ==
    (pc = "done" /\ ZeroProfile) =>
        /\ cn.result # "ZeroDivisionError"
        /\ "hours" \notin DOMAIN cn
        /\ calls = <<>>

\* ------------------------------------------------------------------------
\* The minimum charge time
\* ------------------------------------------------------------------------

\* the setting for min_hours: not given, or 1, 2 or 4 hours
MinHoursSet == {None, I(1), I(2), I(4)}

\* a run with a setting for min_hours
MinHoursCall(residual, hour, min_hours, test_charge) ==
    /\ data = [snapshot(residual) EXCEPT !.hour = hour]
    /\ args = [no_args EXCEPT
                  !.forecast = I(5), !.test_charge = test_charge,
                  !.settings = IF min_hours = None THEN plain_settings
                               ELSE [min_hours |-> min_hours] @@ plain_settings]

InitMinHours ==
    /\ tariff \in {octopus_flux, octopus_cosy, custom_periods, intelligent_octopus}
    /\ \E residual \in {1500, 5000, 8000}, hour \in {10, 14, 21}, min_hours \in MinHoursSet,
          test_charge \in {None, Q(1, 10), I(3)} :
          MinHoursCall(residual, hour, min_hours, test_charge)
    /\ ChargeCall

SpecMinHours == InitMinHours /\ [][NextCharge]_vars

\* ------------------------------------------------------------------------
\* Properties of the charge time
\* ------------------------------------------------------------------------

\* the charge time has been planned
HoursPlanned == "hours" \in DOMAIN cn /\ cn.hours # None

\* C27: the hours planned are never more than the charge time of the period,
\* so that charging ends at or before the end of the period, also when
\* min_hours is used and when the period is shorter than min_hours
C27_HoursWithinChargeTime ==
    HoursPlanned =>
        /\ Le(cn.hours, cn.charge_time)
        /\ Le(round_time(Sub(cn.end1, cn.start_at)), cn.charge_time)

\* ------------------------------------------------------------------------
\* Charge periods of the tariff
\* ------------------------------------------------------------------------

\* the custom tariff with the periods set so that the morning period follows
\* the evening period: 22:00 to 00:00 and 00:00 to 05:00
adjacent_periods ==
    [custom_periods EXCEPT !.off_peak1 = [start |-> I(0), end |-> I(5), force |-> 1],
                           !.off_peak2 = [start |-> I(22), end |-> I(0), force |-> 0]]

\* the custom tariff with the second period not used, set to 13:00 to 13:00
disabled_period ==
    [custom_periods EXCEPT !.off_peak2 = [start |-> I(13), end |-> I(13), force |-> 0]]

PeriodsTariffSet == {octopus_flux, octopus_cosy, adjacent_periods, disabled_period}

\* the hours of the day when charge_needed is run
PeriodsHourSet == {1, 6, 10, 12, 13, 14, 20, 23}

\* a run on the hour or at half past, the clocks going forward tomorrow or not,
\* with a test charge of 8kWh or without
PeriodsCall(residual, hour, minute, hour_adjustment, update_settings, test_charge) ==
    /\ data = [snapshot(residual) EXCEPT !.hour = hour, !.minute = minute,
                                         !.hour_adjustment = hour_adjustment,
                                         !.change_hour = IF hour_adjustment = 0 THEN 0 ELSE 25]
    /\ args = [no_args EXCEPT !.forecast = I(5), !.update_settings = update_settings,
                              !.test_charge = test_charge]

InitPeriods ==
    /\ tariff \in PeriodsTariffSet
    /\ \E residual \in {1500, 5000}, hour \in PeriodsHourSet, minute \in {0, 30},
          hour_adjustment \in {-1, 0}, update_settings \in {0, 1}, test_charge \in {None, I(8)} :
          PeriodsCall(residual, hour, minute, hour_adjustment, update_settings, test_charge)
    /\ ChargeCall

SpecPeriods == InitPeriods /\ [][NextCharge]_vars

\* ------------------------------------------------------------------------
\* Properties of the hours used after the first pass
\* ------------------------------------------------------------------------

\* the hours of the time lines
RunHours == 0 .. (cn.run_time - 1)

\* a charge time has been worked out, or failed to be
ChargePlanned == "charge_message" \in DOMAIN cn /\ cn.charge_message # "no charge needed"

\* C28: every hour used once the first pass is made is an hour of the time
\* lines, from 0 up to run_time - 1: the hour whose discharge gives the charge
\* time (time_to_next), every hour that charge is added to, and the hour where
\* the charge added is read (time_to_end)
C28_HoursInRunTime ==
    ChargePlanned =>
        /\ cn.time_to_next \in RunHours
        /\ cn.charge_message # "IndexError"
        /\ InjectedHours \subseteq RunHours
        /\ (int(EndTimed) + 1) \in RunHours
        /\ cn.result # "IndexError"

\* ------------------------------------------------------------------------
\* Properties of a period that is not used
\* ------------------------------------------------------------------------

\* the charge period has been chosen
PeriodChosen == "start_at" \in DOMAIN cn

\* a period that starts when it ends is not used
Disabled(p) == p.start = p.end

\* C29: a period that starts when it ends, at 00:00 or at any other hour, is
\* never chosen as the next charge period and never stops the settings being
\* updated: the period chosen has a length above zero, and the update asked
\* for is kept unless a period that is used has the time now within 15
\* minutes of it
C29_DisabledPeriodIgnored ==
    PeriodChosen =>
        /\ cn.start_at # cn.end_by
        /\ Disabled(tariff.off_peak1) => ~cn.no_go1
        /\ Disabled(tariff.off_peak2) => (~cn.no_go2 /\ ~cn.charge_pm)
        /\ (pc = "battery" /\ cn.update_settings # args.update_settings) =>
               \/ cn.no_go1 /\ ~Disabled(tariff.off_peak1)
               \/ cn.no_go2 /\ ~Disabled(tariff.off_peak2)

\* ------------------------------------------------------------------------
\* Settings of the inverter and the schedule
\* ------------------------------------------------------------------------

\* the most calls made in a run of the settings
MaxCalls == 3

\* a call under way: the schedule held by the program (<<>> is None), the
\* requests sent, the exception raised and what is returned
SettingCall(schedule) == [schedule |-> schedule, sent |-> <<>>, raised |-> "None", ret |-> "None"]

\* get the current switch status: the name returned (flag) is not defined
get_flag(s, inverter, ok) ==
    LET s1 == [s EXCEPT !.sent = Append(@, "scheduler/get/flag")]
    IN  IF ~ok THEN s1
        ELSE [s1 EXCEPT !.schedule = <<[enable |-> inverter.enable, support |-> inverter.support]>>,
                        !.raised = "NameError"]

\* get the current schedule
get_schedule(s, inverter, ok_flag, ok) ==
    LET s1 == IF s.schedule = <<>> THEN get_flag(s, inverter, ok_flag) ELSE s
    IN  IF s1.raised # "None" THEN s1
        ELSE IF s1.schedule = <<>> THEN [s1 EXCEPT !.ret = "None"]
        ELSE LET s2 == [s1 EXCEPT !.sent = Append(@, "scheduler/get")]
             IN  IF ~ok THEN [s2 EXCEPT !.ret = "None"]
                 ELSE [s2 EXCEPT !.schedule = <<[@[1] EXCEPT !.enable = inverter.enable]>>,
                                 !.ret = "schedule"]

\* set the schedule flag, without groups and with a schedule held: the name
\* used for the serial number in the request (deviceSN) is not defined
set_schedule(s, enable, debug_setting) ==
    IF debug_setting > 1 THEN [s EXCEPT !.ret = "None"]
    ELSE [s EXCEPT !.raised = "NameError"]

\* what set_charge, set_min and set_work_mode do about the schedule before
\* they change a setting; go is TRUE when the call goes on
schedule_enabled(s, inverter, force, debug_setting, ok_flag, ok) ==
    LET s1 == get_schedule(s, inverter, ok_flag, ok)
    IN  IF s1.raised # "None" THEN [go |-> FALSE, s |-> s1]
        ELSE IF s1.ret = "None"
        THEN [go |-> FALSE, s |-> [s1 EXCEPT !.raised = "AttributeError"]]
        ELSE IF s1.schedule[1].enable = 1
        THEN IF force = 0 THEN [go |-> FALSE, s |-> [s1 EXCEPT !.ret = "None"]]
             ELSE LET s2 == set_schedule(s1, 0, debug_setting)
                  IN  [go |-> s2.raised = "None", s |-> s2]
        ELSE [go |-> TRUE, s |-> s1]

\* the call is over: what it did is kept
setting_return(fn, force, s) ==
    /\ util.n < MaxCalls
    /\ util' = [util EXCEPT !.n = @ + 1, !.schedule = s.schedule,
                            !.last = [fn |-> fn, force |-> force,
                                      enable |-> util.inverter.enable,
                                      sent |-> s.sent, raised |-> s.raised, ret |-> s.ret]]
    /\ UNCHANGED <<agile_vars, charge_vars>>

\* lines 498-564
set_charge ==
    /\ util.fn = "settings"
    /\ \E force \in {0, 1}, ok_flag \in BOOLEAN, ok \in BOOLEAN, ok_set \in BOOLEAN :
       \E g \in {schedule_enabled(SettingCall(util.schedule), util.inverter, force,
                                  util.debug_setting, ok_flag, ok)} :
          setting_return("set_charge", force,
              IF ~g.go \/ util.debug_setting > 1 THEN [g.s EXCEPT !.ret = "None"]
              ELSE [g.s EXCEPT !.sent = Append(@, "battery/forceChargeTime/set"),
                               !.ret = IF ok_set THEN "battery_settings" ELSE "None"])

\* lines 594-628: battery_settings is assigned in the function and is not
\* named as global, so that reading it raises UnboundLocalError
set_min ==
    /\ util.fn = "settings"
    /\ \E force \in {0, 1}, ok_flag \in BOOLEAN, ok \in BOOLEAN :
       \E g \in {schedule_enabled(SettingCall(util.schedule), util.inverter, force,
                                  util.debug_setting, ok_flag, ok)} :
          setting_return("set_min", force,
              IF ~g.go THEN g.s ELSE [g.s EXCEPT !.raised = "UnboundLocalError"])

\* lines 729-760
set_work_mode ==
    /\ util.fn = "settings"
    /\ \E mode \in {"SelfUse", "ForceCharge"}, force \in {0, 1},
          ok_flag \in BOOLEAN, ok \in BOOLEAN, ok_set \in BOOLEAN :
          IF mode \notin {work_modes[k] : k \in 1..3}
          THEN setting_return("set_work_mode", force, SettingCall(util.schedule))
          ELSE \E g \in {schedule_enabled(SettingCall(util.schedule), util.inverter, force,
                                          util.debug_setting, ok_flag, ok)} :
                  setting_return("set_work_mode", force,
                      IF ~g.go \/ util.debug_setting > 1 THEN [g.s EXCEPT !.ret = "None"]
                      ELSE [g.s EXCEPT !.sent = Append(@, "device/setting/set"),
                                       !.ret = IF ok_set THEN mode ELSE "None"])

\* the schedule is switched on or off at the inverter by its owner
schedule_switched ==
    /\ util.fn = "settings"
    /\ util.n < MaxCalls
    /\ util' = [util EXCEPT !.inverter.enable = 1 - @]
    /\ UNCHANGED <<agile_vars, charge_vars>>

NoSetting == [fn |-> "None", force |-> 0, enable |-> 0, sent |-> <<>>,
              raised |-> "None", ret |-> "None"]

InitSettings ==
    /\ \E debug_setting \in {0, 1, 2}, enable \in {0, 1} :
          util = [fn |-> "settings", debug_setting |-> debug_setting,
                  inverter |-> [enable |-> enable, support |-> 1],
                  schedule |-> <<>>, n |-> 0, last |-> NoSetting]
    /\ AgileIdle
    /\ ChargeIdle

NextSettings == set_charge \/ set_min \/ set_work_mode \/ schedule_switched

SpecSettings == InitSettings /\ [][NextSettings]_vars

\* ------------------------------------------------------------------------
\* Properties of the settings and the schedule
\* ------------------------------------------------------------------------

\* the requests that change a setting of the inverter
SettingRequests == {"battery/forceChargeTime/set", "battery/soc/set", "device/setting/set"}

\* the places in the requests of the last call where a setting is changed
SettingsSent == {k \in 1..Len(util.last.sent) : util.last.sent[k] \in SettingRequests}

\* the places where the schedule flag is set
FlagsSent == {k \in 1..Len(util.last.sent) : util.last.sent[k] = "scheduler/set/flag"}

\* a call of set_charge, set_min or set_work_mode, the schedule being enabled
CalledWhenEnabled == util.last.fn # "None" /\ util.last.enable = 1

\* C30: no setting is changed by a call without force while a schedule is
\* enabled; a call with force first asks for the schedule to be disabled, and
\* changes the setting only after that request
C30_ScheduleDisabledFirst ==
    /\ (CalledWhenEnabled /\ util.last.force = 0) =>
           (SettingsSent = {} /\ util.last.raised = "None")
    /\ (CalledWhenEnabled /\ util.last.force # 0 /\ util.debug_setting <= 1
            /\ "scheduler/get" \in {util.last.sent[k] : k \in 1..Len(util.last.sent)}) =>
           /\ FlagsSent # {}
           /\ \A k \in SettingsSent : \E f \in FlagsSent : f < k

====
